---- MODULE Spec2Model ----
(***************************************************************************)
(* Marketing analytics orchestrator: the query router, the synthesis-level *)
(* planner, the data-quality gate and the nine-step pipeline runner.       *)
(*                                                                         *)
(* Each subsystem has its own specification over its own variable; the     *)
(* other variables stay at Idle while it runs.                             *)
(*   SpecSynth    determine_synthesis_levels on lists of active channels   *)
(*   SpecClassify classify_query on free-text queries                      *)
(*   SpecFV       FileValidation.add on a growing check list               *)
(*   SpecValidate run_validation of validate_data.py on lists of files     *)
(*   Spec         run_pipeline, one action per pipeline step               *)
(*   SpecPermuted determine_synthesis_levels on a list and a permutation   *)
(*   SpecIdentify identify_source on column sets                           *)
(*   SpecStrip    strip_junk_rows, applied once and once more              *)
(*   SpecDates    standardize_dates on date columns                        *)
(*   SpecGeo      split_by_geo on tables with campaigns or countries       *)
(***************************************************************************)
EXTENDS Integers, Sequences, FiniteSets, TLC

VARIABLES
  syn,    \* determine_synthesis_levels: its argument and its return value
  cls,    \* classify_query: its argument, its locals and its return value
  fv,     \* one FileValidation object: checks and overall_status
  val,    \* run_validation (validate_data.py): the files and the returned dict
  pipe,   \* run_pipeline: arguments, program counter, locals, result, files written
  pre     \* preprocess.py: the table a function is called with and what it returns

vars == <<syn, cls, fv, val, pipe, pre>>

Idle == [pc |-> "idle"]

None == "None"

\* ------------------------------------------------------------------------
\* Bounds of the model
\* ------------------------------------------------------------------------

\* longest list of active channels given to determine_synthesis_levels
MaxActive == 4

\* most words of a query given to classify_query
MaxWords == 2

\* most checks added to one FileValidation in SpecFV
MaxChecks == 4

\* most files given to run_validation
MaxFiles == 2

\* longest explicit channel list given to run_pipeline
MaxExplicit == 2

\* longest list of active channels that is planned in two orders
MaxPermuted == 4

\* most rows of a table given to strip_junk_rows
MaxRows == 6

\* most runs of equal values in a Date column
MaxRuns == 2

\* most rows of a table given to split_by_geo
MaxGeoRows == 3

\* the most rows of a HALO file
MaxHaloRows == 3

\* the most rows of a file given to process_file
MaxProcessRows == 3

\* the most files of data/validated that get_available_data lists
MaxListed == 2

\* ------------------------------------------------------------------------
\* Generic helpers
\* ------------------------------------------------------------------------

SeqsUpTo(S, n) == UNION {[1..k -> S] : k \in 0..n}

Range(s) == {s[i] : i \in 1..Len(s)}

\* number of entries of the list s that satisfy Test
Count(s, Test(_)) == Cardinality({i \in 1..Len(s) : Test(s[i])})

\* ------------------------------------------------------------------------
\* CHANNEL GROUPS & MAPPINGS (run_analysis.py)
\* ------------------------------------------------------------------------

CHANNEL_GROUPS ==
  [ sem |-> "paid", brand_campaign |-> "paid", display |-> "paid",
    promoted_social |-> "paid", metasearch |-> "paid", affiliate |-> "paid",
    email |-> "lifecycle", push_notification |-> "lifecycle", sms |-> "lifecycle",
    seo |-> "organic", free_referral |-> "organic", managed_social |-> "organic",
    distribution |-> "distribution", paid_user_referral |-> "distribution",
    promo |-> "pricing" ]

Groups == {"paid", "lifecycle", "organic", "distribution", "pricing"}

GROUP_SYNTHESIS_MAP ==
  [ paid |-> "agents/paid/synthesis.md",
    lifecycle |-> "agents/lifecycle/synthesis.md",
    organic |-> "agents/organic/synthesis.md",
    distribution |-> "agents/distribution/synthesis.md",
    pricing |-> None ]

\* CHANNEL_GROUPS.get(ch): None for a channel the table does not know
GroupOf(ch) == IF ch \in DOMAIN CHANNEL_GROUPS THEN CHANNEL_GROUPS[ch] ELSE None

\* GROUP_SYNTHESIS_MAP.get(group)
SynthesisAgent(group) ==
  IF group \in DOMAIN GROUP_SYNTHESIS_MAP THEN GROUP_SYNTHESIS_MAP[group] ELSE None

\* ------------------------------------------------------------------------
\* determine_synthesis_levels
\* ------------------------------------------------------------------------

\* A dict with insertion order: keys in the order of their first insertion,
\* and the list stored under each key.
EmptyDict == [keys |-> <<>>, at |-> [g \in Groups |-> <<>>]]

\* only channels that follow each other in the list are put together: the
\* list of a group starts again when another group came in between
SetDefaultAppend_Adjacent(d, group, ch) ==
  IF Len(d.keys) > 0 /\ d.keys[Len(d.keys)] = group
  THEN [keys |-> d.keys, at |-> [d.at EXCEPT ![group] = Append(@, ch)]]
  ELSE [keys |-> Append(SelectSeq(d.keys, LAMBDA g : g # group), group),
        at   |-> [d.at EXCEPT ![group] = <<ch>>]]

\* d.setdefault(group, []).append(ch)
SetDefaultAppend(d, group, ch) ==
  [keys |-> IF group \in Range(d.keys) THEN d.keys ELSE Append(d.keys, group),
   at   |-> [d.at EXCEPT ![group] = Append(@, ch)]]

\* the loop that fills channels_per_group, from entry i of active_channels on
RECURSIVE ChannelsPerGroup(_, _, _)
ChannelsPerGroup(active_channels, i, d) ==
  IF i > Len(active_channels) THEN d
  ELSE LET ch    == active_channels[i]
           group == GroupOf(ch)
       IN  ChannelsPerGroup(active_channels, i + 1,
             IF group # None THEN SetDefaultAppend(d, group, ch) ELSE d)

\* the agent of the group is not looked at
NeedsGroupSynthesis_AnyGroup(channels, group) == Len(channels) >= 2

\* the condition under which a group is appended to group_synthesis
NeedsGroupSynthesis(channels, group) ==
  Len(channels) >= 2 /\ SynthesisAgent(group) # None

\* one active group is enough
NeedsTopSynthesis_OneGroup(active_groups) == Cardinality(active_groups) >= 1

\* needs_top_synthesis = len(active_groups) >= 2
NeedsTopSynthesis(active_groups) == Cardinality(active_groups) >= 2

determine_synthesis_levels(active_channels) ==
  LET channels_per_group == ChannelsPerGroup(active_channels, 1, EmptyDict)
      group_synthesis ==
        SelectSeq(channels_per_group.keys,
                  LAMBDA g : NeedsGroupSynthesis(channels_per_group.at[g], g))
      active_groups == Range(channels_per_group.keys)
  IN  [group_synthesis     |-> group_synthesis,
       needs_top_synthesis |-> NeedsTopSynthesis(active_groups)]

\* channels the planner is driven with: every group is represented, two groups
\* by two channels, plus a name CHANNEL_GROUPS does not know
SynChannels ==
  {"sem", "display", "email", "sms", "seo", "distribution",
   "paid_user_referral", "promo", "sem-incrementality"}

SynInit ==
  /\ syn \in {[pc |-> "call", active_channels |-> a, result |-> None] :
                a \in SeqsUpTo(SynChannels, MaxActive)}
  /\ cls = Idle /\ fv = Idle /\ val = Idle /\ pipe = Idle /\ pre = Idle

DetermineSynthesisLevels ==
  /\ syn.pc = "call"
  /\ syn' = [syn EXCEPT !.pc = "done",
                        !.result = determine_synthesis_levels(syn.active_channels)]
  /\ UNCHANGED <<cls, fv, val, pipe, pre>>

SynNext == DetermineSynthesisLevels

SpecSynth == SynInit /\ [][SynNext]_vars

\* C10: after determine_synthesis_levels, a group is in the group-synthesis
\* list if and only if at least 2 entries of the active-channel list belong
\* to it (by CHANNEL_GROUPS) and GROUP_SYNTHESIS_MAP names an agent for it.
C10_GroupSynthesisIff ==
  syn.pc = "done" =>
    \A g \in Groups :
      (g \in Range(syn.result.group_synthesis))
        <=> ( /\ Count(syn.active_channels, LAMBDA ch : GroupOf(ch) = g) >= 2
              /\ GROUP_SYNTHESIS_MAP[g] # None )

\* a run that schedules one group, leaves a single-channel group out and
\* leaves out the agent-less pricing group although promo is listed twice
C10_Witness ==
  /\ syn.pc = "done"
  /\ syn.active_channels = <<"promo", "sem", "promo", "display">>
  /\ syn.result.group_synthesis = <<"paid">>

\* ------------------------------------------------------------------------
\* Text: a string is the sequence of its characters
\* ------------------------------------------------------------------------

UpperAlpha == <<"A","B","C","D","E","F","G","H","I","J","K","L","M","N","O","P","Q","R","S","T","U","V","W","X","Y","Z">>
LowerAlpha == <<"a","b","c","d","e","f","g","h","i","j","k","l","m","n","o","p","q","r","s","t","u","v","w","x","y","z">>

\* the lower-case letter of each upper-case letter
LowerOf ==
  [c \in Range(UpperAlpha) |->
     LowerAlpha[CHOOSE i \in 1..Len(UpperAlpha) : UpperAlpha[i] = c]]

LowerChar(c) == IF c \in DOMAIN LowerOf THEN LowerOf[c] ELSE c

\* str.lower()
Lower(s) == [i \in 1..Len(s) |-> LowerChar(s[i])]

\* str.strip(), the only whitespace of the model's alphabet being the blank
RECURSIVE LStrip(_)
LStrip(s) == IF Len(s) > 0 /\ s[1] = " " THEN LStrip(Tail(s)) ELSE s

RECURSIVE RStrip(_)
RStrip(s) ==
  IF Len(s) > 0 /\ s[Len(s)] = " " THEN RStrip(SubSeq(s, 1, Len(s) - 1)) ELSE s

Strip(s) == RStrip(LStrip(s))

\* kw in s: kw occurs in s as a substring
Contains(kw, s) ==
  \E i \in 1..(Len(s) - Len(kw) + 1) :
    \A j \in 1..Len(kw) : s[i + j - 1] = kw[j]

\* " ".join(ws)
RECURSIVE Join(_)
Join(ws) ==
  IF Len(ws) = 0 THEN <<>>
  ELSE IF Len(ws) = 1 THEN ws[1]
  ELSE ws[1] \o <<" ">> \o Join(Tail(ws))

\* ------------------------------------------------------------------------
\* ROUTING TABLE (run_analysis.py)
\* ------------------------------------------------------------------------

ROUTING_TABLE ==
  <<
    [keywords |-> <<<<"s","e","m">>,
         <<"g","o","o","g","l","e"," ","a","d","s">>,
         <<"p","a","i","d"," ","s","e","a","r","c","h">>,
         <<"c","p","c">>,
         <<"r","o","a","s">>,
         <<"s","e","a","r","c","h"," ","a","d","s">>,
         <<"a","d","w","o","r","d","s">>>>,
     channels |-> <<"sem">>,
     self_contained |-> FALSE,
     all_channels |-> FALSE],
    [keywords |-> <<<<"b","r","a","n","d"," ","c","a","m","p","a","i","g","n">>,
         <<"b","r","a","n","d","e","d">>,
         <<"b","r","a","n","d"," ","s","e","a","r","c","h">>>>,
     channels |-> <<"brand_campaign">>,
     self_contained |-> FALSE,
     all_channels |-> FALSE],
    [keywords |-> <<<<"d","i","s","p","l","a","y">>,
         <<"p","r","o","g","r","a","m","m","a","t","i","c">>,
         <<"d","v","3","6","0">>,
         <<"c","p","m">>,
         <<"b","a","n","n","e","r">>,
         <<"v","i","e","w","a","b","i","l","i","t","y">>>>,
     channels |-> <<"display">>,
     self_contained |-> FALSE,
     all_channels |-> FALSE],
    [keywords |-> <<<<"p","a","i","d"," ","s","o","c","i","a","l">>,
         <<"s","o","c","i","a","l"," ","a","d","s">>,
         <<"f","a","c","e","b","o","o","k"," ","a","d","s">>,
         <<"i","n","s","t","a","g","r","a","m"," ","a","d","s">>,
         <<"t","i","k","t","o","k"," ","a","d","s">>>>,
     channels |-> <<"promoted_social">>,
     self_contained |-> FALSE,
     all_channels |-> FALSE],
    [keywords |-> <<<<"m","e","t","a","s","e","a","r","c","h">>,
         <<"h","o","t","e","l"," ","a","d","s">>,
         <<"t","r","i","p","a","d","v","i","s","o","r">>,
         <<"t","r","i","v","a","g","o">>,
         <<"k","a","y","a","k">>>>,
     channels |-> <<"metasearch">>,
     self_contained |-> FALSE,
     all_channels |-> FALSE],
    [keywords |-> <<<<"a","f","f","i","l","i","a","t","e">>,
         <<"p","u","b","l","i","s","h","e","r">>,
         <<"c","o","m","m","i","s","s","i","o","n">>,
         <<"e","p","c">>>>,
     channels |-> <<"affiliate">>,
     self_contained |-> FALSE,
     all_channels |-> FALSE],
    [keywords |-> <<<<"e","m","a","i","l">>,
         <<"n","e","w","s","l","e","t","t","e","r">>,
         <<"m","a","i","l","c","h","i","m","p">>,
         <<"b","r","a","z","e">>,
         <<"e","m","a","i","l"," ","m","a","r","k","e","t","i","n","g">>>>,
     channels |-> <<"email">>,
     self_contained |-> FALSE,
     all_channels |-> FALSE],
    [keywords |-> <<<<"p","u","s","h">>,
         <<"p","u","s","h"," ","n","o","t","i","f","i","c","a","t","i","o","n">>,
         <<"a","p","p"," ","n","o","t","i","f","i","c","a","t","i","o","n">>,
         <<"m","o","b","i","l","e"," ","p","u","s","h">>>>,
     channels |-> <<"push_notification">>,
     self_contained |-> FALSE,
     all_channels |-> FALSE],
    [keywords |-> <<<<"s","m","s">>,
         <<"t","e","x","t"," ","m","e","s","s","a","g","e">>,
         <<"m","m","s">>>>,
     channels |-> <<"sms">>,
     self_contained |-> FALSE,
     all_channels |-> FALSE],
    [keywords |-> <<<<"c","r","m">>,
         <<"l","i","f","e","c","y","c","l","e">>,
         <<"m","a","n","a","g","e","d"," ","c","h","a","n","n","e","l","s">>,
         <<"o","w","n","e","d"," ","c","h","a","n","n","e","l","s">>,
         <<"r","e","t","e","n","t","i","o","n">>>>,
     channels |-> <<"email", "push_notification", "sms">>,
     self_contained |-> FALSE,
     all_channels |-> FALSE],
    [keywords |-> <<<<"s","e","o">>,
         <<"o","r","g","a","n","i","c"," ","s","e","a","r","c","h">>,
         <<"r","a","n","k","i","n","g","s">>,
         <<"g","s","c">>,
         <<"s","e","a","r","c","h"," ","c","o","n","s","o","l","e">>,
         <<"p","o","s","i","t","i","o","n">>,
         <<"c","r","a","w","l">>,
         <<"i","n","d","e","x","i","n","g">>,
         <<"p","a","g","e"," ","s","p","e","e","d">>,
         <<"c","o","r","e"," ","w","e","b"," ","v","i","t","a","l","s">>,
         <<"t","e","c","h","n","i","c","a","l"," ","s","e","o">>>>,
     channels |-> <<"seo">>,
     self_contained |-> FALSE,
     all_channels |-> FALSE],
    [keywords |-> <<<<"o","r","g","a","n","i","c"," ","s","o","c","i","a","l">>,
         <<"s","o","c","i","a","l"," ","m","e","d","i","a">>,
         <<"c","o","m","m","u","n","i","t","y">>,
         <<"m","a","n","a","g","e","d"," ","s","o","c","i","a","l">>>>,
     channels |-> <<"managed_social">>,
     self_contained |-> FALSE,
     all_channels |-> FALSE],
    [keywords |-> <<<<"r","e","f","e","r","r","a","l">>,
         <<"w","o","r","d"," ","o","f"," ","m","o","u","t","h">>,
         <<"o","r","g","a","n","i","c"," ","r","e","f","e","r","r","a","l">>>>,
     channels |-> <<"free_referral">>,
     self_contained |-> FALSE,
     all_channels |-> FALSE],
    [keywords |-> <<<<"d","i","s","t","r","i","b","u","t","i","o","n">>,
         <<"w","h","i","t","e"," ","l","a","b","e","l">>,
         <<"s","y","n","d","i","c","a","t","i","o","n">>>>,
     channels |-> <<"distribution">>,
     self_contained |-> FALSE,
     all_channels |-> FALSE],
    [keywords |-> <<<<"r","e","f","e","r","r","a","l"," ","p","r","o","g","r","a","m">>,
         <<"r","e","f","e","r"," ","a"," ","f","r","i","e","n","d">>,
         <<"u","s","e","r"," ","r","e","f","e","r","r","a","l">>,
         <<"r","e","f","e","r","r","a","l"," ","i","n","c","e","n","t","i","v","e">>>>,
     channels |-> <<"paid_user_referral">>,
     self_contained |-> FALSE,
     all_channels |-> FALSE],
    [keywords |-> <<<<"p","r","i","c","i","n","g">>,
         <<"p","r","o","m","o">>,
         <<"p","r","o","m","o","t","i","o","n">>,
         <<"d","i","s","c","o","u","n","t">>,
         <<"c","o","u","p","o","n">>,
         <<"v","o","u","c","h","e","r">>,
         <<"d","e","a","l"," ","i","m","p","a","c","t">>,
         <<"o","f","f","e","r">>,
         <<"s","a","l","e"," ","e","v","e","n","t">>,
         <<"p","r","o","m","o"," ","r","o","i">>,
         <<"p","r","o","m","o"," ","i","m","p","a","c","t">>>>,
     channels |-> <<"promo">>,
     self_contained |-> FALSE,
     all_channels |-> FALSE],
    [keywords |-> <<<<"i","n","c","r","e","m","e","n","t","a","l","i","t","y">>,
         <<"i","n","c","r","e","m","e","n","t","a","l","i","t","y"," ","t","e","s","t">>,
         <<"m","r","o","a","s">>,
         <<"t","r","o","a","s"," ","t","e","s","t">>,
         <<"s","p","l","i","t"," ","t","e","s","t">>>>,
     channels |-> <<"sem-incrementality">>,
     self_contained |-> TRUE,
     all_channels |-> FALSE],
    [keywords |-> <<<<"p","a","i","d">>,
         <<"p","a","i","d"," ","c","h","a","n","n","e","l","s">>,
         <<"p","a","i","d"," ","m","e","d","i","a">>>>,
     channels |-> <<"sem", "brand_campaign", "display", "promoted_social", "metasearch", "affiliate">>,
     self_contained |-> FALSE,
     all_channels |-> FALSE],
    [keywords |-> <<<<"o","r","g","a","n","i","c">>,
         <<"o","r","g","a","n","i","c"," ","c","h","a","n","n","e","l","s">>>>,
     channels |-> <<"seo", "free_referral", "managed_social">>,
     self_contained |-> FALSE,
     all_channels |-> FALSE],
    [keywords |-> <<<<"o","v","e","r","a","l","l">>,
         <<"a","l","l"," ","c","h","a","n","n","e","l","s">>,
         <<"m","i","x">>,
         <<"c","o","m","p","a","r","e"," ","c","h","a","n","n","e","l","s">>,
         <<"t","o","t","a","l">>,
         <<"b","l","e","n","d","e","d">>,
         <<"p","o","r","t","f","o","l","i","o">>>>,
     channels |-> <<>>,
     self_contained |-> FALSE,
     all_channels |-> TRUE],
    [keywords |-> <<<<"b","u","d","g","e","t">>,
         <<"p","a","c","i","n","g">>,
         <<"s","p","e","n","d">>>>,
     channels |-> <<"sem", "display", "metasearch", "affiliate">>,
     self_contained |-> FALSE,
     all_channels |-> FALSE],
    [keywords |-> <<<<"a","n","o","m","a","l">>,
         <<"a","l","e","r","t">>,
         <<"f","l","a","g">>,
         <<"u","n","u","s","u","a","l">>>>,
     channels |-> <<>>,
     self_contained |-> FALSE,
     all_channels |-> TRUE]
  >>

\* ------------------------------------------------------------------------
\* STEP 1: classify_query
\* Only the routing fields of the result are modelled; template, date_range,
\* comparison_type and geo are computed from the query alone and steer
\* nothing in the pipeline.
\* ------------------------------------------------------------------------

\* sum(1 for kw in route["keywords"] if kw in query_lower)
MatchCount(route, query_lower) ==
  Cardinality({k \in 1..Len(route.keywords) : Contains(route.keywords[k], query_lower)})

\* a later entry with as many hits replaces the one held
BetterMatch_OrEqual(match_count, best_match_count) == match_count >= best_match_count

\* if match_count > best_match_count
BetterMatch(match_count, best_match_count) == match_count > best_match_count

\* for route in ROUTING_TABLE, from entry i on; best_match is the index of
\* the entry held (0 for None)
RECURSIVE RouteLoop(_, _, _, _)
RouteLoop(query_lower, i, best_match, best_match_count) ==
  IF i > Len(ROUTING_TABLE)
  THEN [best_match |-> best_match, best_match_count |-> best_match_count]
  ELSE LET match_count == MatchCount(ROUTING_TABLE[i], query_lower)
       IN  IF BetterMatch(match_count, best_match_count)
           THEN RouteLoop(query_lower, i + 1, i, match_count)
           ELSE RouteLoop(query_lower, i + 1, best_match, best_match_count)

\* list(set(CHANNEL_GROUPS.get(ch, "") for ch in channels if ch in CHANNEL_GROUPS))
\* filtered by [g for g in groups if g]; the order of a list made from a set
\* is not fixed, so the groups are kept as a set
GroupsOf(channels) ==
  {CHANNEL_GROUPS[ch] : ch \in {c \in Range(channels) : c \in DOMAIN CHANNEL_GROUPS}}

\* a single hit is not taken for a match
KeywordMatched_TwoHits(best_match, best_match_count) ==
  best_match # 0 /\ best_match_count > 1

\* if best_match and best_match_count > 0
KeywordMatched(best_match, best_match_count) ==
  best_match # 0 /\ best_match_count > 0

classify_query(query) ==
  LET query_lower == Strip(Lower(query))
      best        == RouteLoop(query_lower, 1, 0, 0)
  IN  IF KeywordMatched(best.best_match, best.best_match_count)
      THEN LET route == ROUTING_TABLE[best.best_match]
           IN  [channels       |-> route.channels,
                groups         |-> GroupsOf(route.channels),
                self_contained |-> route.self_contained,
                all_channels   |-> route.all_channels,
                match_type     |-> "keyword",
                best_match     |-> best.best_match]
      ELSE [channels       |-> <<>>,
            groups         |-> {},
            self_contained |-> FALSE,
            all_channels   |-> FALSE,
            match_type     |-> "fallback",
            best_match     |-> best.best_match]

\* words the queries are made of: keywords of several entries, parts of
\* multi-word keywords, a word that holds a keyword inside ("seminar"),
\* a word no entry knows, upper case, and the empty word (which puts blanks
\* at the ends of the query)
QueryWords ==
  { <<>>,
    <<"S","E","M">>,
    <<"e","m","a","i","l">>,
    <<"p","a","i","d">>,
    <<"s","e","a","r","c","h">>,
    <<"o","r","g","a","n","i","c">>,
    <<"r","e","f","e","r","r","a","l">>,
    <<"p","r","o","g","r","a","m">>,
    <<"p","r","o","m","o">>,
    <<"T","o","t","a","l">>,
    <<"c","h","a","n","n","e","l","s">>,
    <<"s","e","m","i","n","a","r">>,
    <<"b","u","d","g","e","t">>,
    <<"h","o","w">> }

Queries == {Join(ws) : ws \in SeqsUpTo(QueryWords, MaxWords)}

ClsInit ==
  /\ cls \in {[pc |-> "call", query |-> q, result |-> None] : q \in Queries}
  /\ syn = Idle /\ fv = Idle /\ val = Idle /\ pipe = Idle /\ pre = Idle

ClassifyQuery ==
  /\ cls.pc = "call"
  /\ cls' = [cls EXCEPT !.pc = "done", !.result = classify_query(cls.query)]
  /\ UNCHANGED <<syn, fv, val, pipe, pre>>

ClsNext == ClassifyQuery

SpecClassify == ClsInit /\ [][ClsNext]_vars

\* number of keywords of entry i that occur in the lowercased query
Hits(i, query) ==
  Cardinality({k \in 1..Len(ROUTING_TABLE[i].keywords) :
                 Contains(ROUTING_TABLE[i].keywords[k], Lower(query))})

Entries == 1..Len(ROUTING_TABLE)

\* C7: when some keyword occurs in the query, the entry classify_query
\* chooses has the greatest number of keyword hits, every entry declared
\* before it has strictly fewer hits, and the channels and flags returned
\* are those of that entry.
C7_GreatestCountEarliestWins ==
  (cls.pc = "done" /\ \E i \in Entries : Hits(i, cls.query) > 0) =>
    LET b == cls.result.best_match
    IN  /\ b \in Entries
        /\ \A j \in Entries : Hits(j, cls.query) <= Hits(b, cls.query)
        /\ \A j \in 1..(b - 1) : Hits(j, cls.query) < Hits(b, cls.query)
        /\ cls.result.channels = ROUTING_TABLE[b].channels
        /\ cls.result.all_channels = ROUTING_TABLE[b].all_channels
        /\ cls.result.self_contained = ROUTING_TABLE[b].self_contained

\* "referral program": entry 13 (referral) and entry 15 (referral program)
\* have one hit each, and the earlier one is chosen
C7_Witness ==
  /\ cls.pc = "done"
  /\ cls.query = Join(<< <<"r","e","f","e","r","r","a","l">>, <<"p","r","o","g","r","a","m">> >>)
  /\ Hits(13, cls.query) = 1 /\ Hits(15, cls.query) = 1
  /\ cls.result.best_match = 13
  /\ cls.result.channels = <<"free_referral">>

\* C8: the result is the fallback (match_type fallback, no channels, no
\* groups) exactly when no keyword of any entry occurs in the query, and
\* otherwise has match_type keyword and the chosen entry's channels.
C8_FallbackIffNoKeyword ==
  cls.pc = "done" =>
    IF \A i \in Entries : Hits(i, cls.query) = 0
    THEN /\ cls.result.match_type = "fallback"
         /\ cls.result.channels = <<>>
         /\ cls.result.groups = {}
    ELSE /\ cls.result.match_type = "keyword"
         /\ cls.result.best_match \in Entries
         /\ cls.result.channels = ROUTING_TABLE[cls.result.best_match].channels

\* a non-empty query without any keyword falls back
C8_Witness ==
  /\ cls.pc = "done"
  /\ cls.query = <<"h","o","w">>
  /\ cls.result.match_type = "fallback"

\* ------------------------------------------------------------------------
\* validate_data.py: ValidationResult and FileValidation
\* ------------------------------------------------------------------------

Statuses == {"PASS", "WARN", "FAIL"}

\* ValidationResult(check_name, status, message)
ValidationResult(check_name, status, message) ==
  [check |-> check_name, status |-> status, message |-> message]

\* FileValidation.__init__
NewFileValidation(filepath, source) ==
  [filepath |-> filepath, source |-> source, checks |-> <<>>, overall_status |-> "PASS"]

\* a WARN is stored whatever the status was
StatusAfterAdd_WarnOverFail(overall_status, status) ==
  IF status = "FAIL" THEN "FAIL"
  ELSE IF status = "WARN" THEN "WARN"
  ELSE overall_status

\* the status FileValidation.add leaves in overall_status
StatusAfterAdd(overall_status, status) ==
  IF status = "FAIL" THEN "FAIL"
  ELSE IF status = "WARN" /\ overall_status # "FAIL" THEN "WARN"
  ELSE overall_status

\* FileValidation.add
FileValidationAdd(validation, result) ==
  [validation EXCEPT !.checks = Append(@, result),
                     !.overall_status = StatusAfterAdd(@, result.status)]

\* validation.add(r) for every r of results, in order
RECURSIVE AddAll(_, _)
AddAll(validation, results) ==
  IF Len(results) = 0 THEN validation
  ELSE AddAll(FileValidationAdd(validation, Head(results)), Tail(results))

\* checks handed to add in SpecFV: one of each status
SomeChecks ==
  { ValidationResult("file_read", "PASS", "Read rows"),
    ValidationResult("schema_data_types", "WARN", "Data type issues found"),
    ValidationResult("schema_required_columns", "FAIL", "Missing required columns") }

FVInit ==
  /\ fv = NewFileValidation("google-ads_na.csv", "google-ads")
  /\ syn = Idle /\ cls = Idle /\ val = Idle /\ pipe = Idle /\ pre = Idle

Add ==
  /\ Len(fv.checks) < MaxChecks
  /\ \E result \in SomeChecks : fv' = FileValidationAdd(fv, result)
  /\ UNCHANGED <<syn, cls, val, pipe, pre>>

FVNext == Add

SpecFV == FVInit /\ [][FVNext]_vars

\* PASS < WARN < FAIL
Severity(status) == CASE status = "PASS" -> 0 [] status = "WARN" -> 1 [] status = "FAIL" -> 2

\* the worst status of a list of checks, PASS for the empty list
WorstStatus(checks) ==
  IF \E i \in 1..Len(checks) : checks[i].status = "FAIL" THEN "FAIL"
  ELSE IF \E i \in 1..Len(checks) : checks[i].status = "WARN" THEN "WARN"
  ELSE "PASS"

\* C2: after any sequence of add calls overall_status is the worst status
\* among the added checks (FAIL over WARN over PASS), and no add call moves
\* overall_status to a less severe value.
C2_OverallStatusIsWorst ==
  /\ [](fv.overall_status = WorstStatus(fv.checks))
  /\ [][Severity(fv'.overall_status) >= Severity(fv.overall_status)]_vars

\* a WARN was added after a FAIL and the status stayed FAIL
C2_Witness ==
  /\ Len(fv.checks) >= 2
  /\ fv.checks[1].status = "FAIL"
  /\ fv.checks[2].status = "WARN"
  /\ fv.overall_status = "FAIL"

\* ------------------------------------------------------------------------
\* validate_data.py: the files under validation
\*
\* A file is its name and what reading it gives.  The name is the list of
\* the parts of its stem between underscores.  Of the table only what the
\* checks look at is kept: for each column whether it is there and how its
\* values are, the days covered, and whether the sanity bounds are broken.
\* ------------------------------------------------------------------------

\* column states: not in the table; every value null; some values that do
\* not parse as the declared type; more than 10% nulls; some nulls but no
\* more than 10%; nothing wrong
ColumnStates == {"absent", "all_null", "garbled", "sparse", "few_nulls", "clean"}

Columns == {"Date", "Clicks", "Cost"}

\* the "columns" section of a source's schema file
SchemaColumns ==
  [ Date   |-> [required |-> TRUE,  type |-> "date"],
    Clicks |-> [required |-> TRUE,  type |-> "integer"],
    Cost   |-> [required |-> FALSE, type |-> "float"] ]

\* SOURCE_SCHEMA_MAP and SOURCE_RULES_MAP
SOURCE_SCHEMA_MAP ==
  [x \in {"google-ads", "gsc", "affiliate", "display"} |-> x]

SOURCE_RULES_MAP ==
  "google-ads" :> "google_ads" @@ "gsc" :> "google_search_console" @@
  "affiliate" :> "affiliate_export" @@ "display" :> "display_export"

\* critical_cols of validate_completeness, cut to the columns of the model
CriticalCols ==
  "google-ads" :> {"Clicks", "Cost"} @@ "gsc" :> {"Clicks"} @@
  "affiliate" :> {"Clicks"} @@ "display" :> {"Clicks", "Cost"}

\* s.startswith(prefix)
StartsWith(s, prefix) ==
  /\ Len(prefix) <= Len(s)
  /\ \A i \in 1..Len(prefix) : s[i] = prefix[i]

\* sep.join(parts)
RECURSIVE JoinWith(_, _)
JoinWith(parts, sep) ==
  IF Len(parts) = 0 THEN <<>>
  ELSE IF Len(parts) = 1 THEN parts[1]
  ELSE parts[1] \o sep \o JoinWith(Tail(parts), sep)

GoogleAds == <<"g","o","o","g","l","e","-","a","d","s">>
Gsc       == <<"g","s","c">>
Affiliate == <<"a","f","f","i","l","i","a","t","e">>
Display   == <<"d","i","s","p","l","a","y">>
Email     == <<"e","m","a","i","l">>

\* detect_source_from_filename
detect_source_from_filename(name) ==
  LET n == Lower(JoinWith(name, <<"_">>))
  IN  IF StartsWith(n, GoogleAds) THEN "google-ads"
      ELSE IF StartsWith(n, Gsc) THEN "gsc"
      ELSE IF StartsWith(n, Affiliate) THEN "affiliate"
      ELSE IF StartsWith(n, Display) THEN "display"
      ELSE None

\* a missing required column is only warned about
MissingRequiredStatus_Warn(missing_required) == "WARN"

\* the status of the schema_required_columns check when columns are missing
MissingRequiredStatus(missing_required) == "FAIL"

\* validate_schema
validate_schema(df, schema_doc) ==
  IF "columns" \notin DOMAIN schema_doc
  THEN << ValidationResult("schema_columns", "WARN", "No schema available for validation") >>
  ELSE
    LET schema  == schema_doc.columns
        df_cols == {c \in Columns : df.cols[c] # "absent"}
        missing_required ==
          {c \in DOMAIN schema : schema[c].required /\ c \notin df_cols}
        empty_columns ==
          {c \in DOMAIN schema : c \in df_cols /\ df.cols[c] = "all_null"}
        required_empty == {c \in empty_columns : schema[c].required}
        optional_empty == empty_columns \ required_empty
        type_issues ==
          {c \in DOMAIN schema :
             /\ c \in df_cols
             /\ schema[c].type \in {"integer", "float", "date"}
             /\ df.cols[c] = "garbled"}
        required_check ==
          IF missing_required # {}
          THEN ValidationResult("schema_required_columns",
                                MissingRequiredStatus(missing_required), "Missing required columns")
          ELSE ValidationResult("schema_required_columns", "PASS", "All required columns present")
        empty_check ==
          IF empty_columns # {}
          THEN IF required_empty # {}
               THEN << ValidationResult("schema_empty_columns", "FAIL",
                                        "Required columns are completely empty") >>
               ELSE IF optional_empty # {}
               THEN << ValidationResult("schema_empty_columns", "WARN",
                                        "Optional columns are completely empty") >>
               ELSE <<>>
          ELSE << ValidationResult("schema_empty_columns", "PASS", "No empty columns detected") >>
        types_check ==
          IF type_issues # {}
          THEN ValidationResult("schema_data_types", "WARN", "Data type issues found")
          ELSE ValidationResult("schema_data_types", "PASS", "All data types valid")
    IN  <<required_check>> \o empty_check \o <<types_check>>

\* if len(missing_dates) > expected_days * 0.3
MajorGaps(missing, expected_days) == missing * 10 > expected_days * 3

\* null_pct of a column: above 0.1, above 0, or 0
NullLevel(state) ==
  IF state \in {"all_null", "sparse"} THEN "major"
  ELSE IF state = "few_nulls" THEN "minor"
  ELSE "none"

\* validate_completeness
validate_completeness(df, source) ==
  IF df.cols["Date"] = "absent"
  THEN << ValidationResult("completeness_dates", "WARN",
                           "No Date column - cannot check completeness") >>
  ELSE IF df.cols["Date"] = "all_null"
  THEN << ValidationResult("completeness_dates", "FAIL",
                           "No valid dates found in Date column") >>
  ELSE
    LET dates_check ==
          IF df.missing_days > 0
          THEN IF MajorGaps(df.missing_days, df.expected_days)
               THEN ValidationResult("completeness_dates", "FAIL", "Major gaps")
               ELSE ValidationResult("completeness_dates", "WARN", "days missing")
          ELSE ValidationResult("completeness_dates", "PASS", "All days present")
        cols_to_check ==
          IF source \in DOMAIN CriticalCols THEN CriticalCols[source] ELSE {}
        null_issues ==
          {c \in cols_to_check : df.cols[c] # "absent" /\ NullLevel(df.cols[c]) # "none"}
        has_major == \E c \in null_issues : NullLevel(df.cols[c]) = "major"
        nulls_check ==
          IF null_issues # {}
          THEN ValidationResult("completeness_nulls",
                                IF has_major THEN "WARN" ELSE "PASS",
                                "Null values found")
          ELSE ValidationResult("completeness_nulls", "PASS",
                                "No significant nulls in critical columns")
    IN  <<dates_check, nulls_check>>

\* validate_sanity.  rules_loaded says whether data-quality-rules.yaml was
\* read and has the key of the source; df.violations whether a value lies
\* outside the bounds of one of the source's checks.
validate_sanity(df, source, rules_loaded) ==
  IF source \notin DOMAIN SOURCE_RULES_MAP \/ ~rules_loaded
  THEN << ValidationResult("sanity_checks", "WARN", "No sanity rules defined for source") >>
  ELSE IF df.violations
  THEN << ValidationResult("sanity_checks", "WARN", "sanity check violations") >>
  ELSE << ValidationResult("sanity_checks", "PASS", "All sanity checks passed") >>

\* what load_schema returns when it returns None: a document without keys
NoSchema == <<>>

\* load_schema: the parsed YAML file of the source, if it is there
load_schema(source, f) ==
  IF source \in DOMAIN SOURCE_SCHEMA_MAP /\ f.schema_file
  THEN [columns |-> SchemaColumns]
  ELSE NoSchema

\* validate_file
validate_file(f) ==
  LET source == detect_source_from_filename(f.name)
  IN  IF source = None
      THEN FileValidationAdd(NewFileValidation(f.name, "unknown"),
             ValidationResult("source_detection", "FAIL", "Cannot detect source from filename"))
      ELSE
        LET validation == NewFileValidation(f.name, source)
            schema     == load_schema(source, f)
        IN  IF f.read = "error"
            THEN FileValidationAdd(validation,
                   ValidationResult("file_read", "FAIL", "Cannot read file"))
            ELSE IF f.read = "empty"
            THEN FileValidationAdd(validation,
                   ValidationResult("file_read", "FAIL", "File is empty"))
            ELSE AddAll(validation,
                   << ValidationResult("file_read", "PASS", "Read rows") >>
                   \o validate_schema(f, schema)
                   \o validate_completeness(f, source)
                   \o validate_sanity(f, source, f.rules_loaded))

\* len(p) == 10 and p.count("-") == 2
IsDatePart(p) ==
  Len(p) = 10 /\ Cardinality({i \in 1..Len(p) : p[i] = "-"}) = 2

\* date_parts of a file name
DateParts(name) == SelectSeq(name, IsDatePart)

\* validate_cross_source: the files are grouped by the first and last date
\* part of their names; a group of more than one file gives a PASS check, and
\* without any such group a single PASS check says the step was skipped
validate_cross_source(files) ==
  LET HasRange(i) == Len(DateParts(files[i].name)) >= 2
      Key(i) == LET d == DateParts(files[i].name) IN <<d[1], d[Len(d)]>>
      ranged == {i \in 1..Len(files) : HasRange(i)}
      \* the first file of each date range, in the order the keys are inserted
      firsts == SelectSeq([i \in 1..Len(files) |-> i],
                  LAMBDA i : i \in ranged /\ \A j \in 1..(i - 1) : j \in ranged => Key(j) # Key(i))
      groups == SelectSeq(firsts,
                  LAMBDA i : Cardinality({j \in ranged : Key(j) = Key(i)}) > 1)
      results == [k \in 1..Len(groups) |->
                    ValidationResult("cross_source_period", "PASS",
                                     "files with matching date ranges")]
  IN  IF Len(results) = 0
      THEN << ValidationResult("cross_source", "PASS", "Cross-source validation skipped") >>
      ELSE results

\* the status run_validation keeps in overall after seeing one more status
WorseOverall_LastWins(overall, status) ==
  IF status = "FAIL" THEN "FAIL"
  ELSE IF status = "WARN" THEN "WARN"
  ELSE overall

WorseOverall(overall, status) ==
  IF status = "FAIL" THEN "FAIL"
  ELSE IF status = "WARN" /\ overall # "FAIL" THEN "WARN"
  ELSE overall

\* a caveat: the text f"{fr.filepath.name}: {check.message}" of a file's
\* check, or the bare message of a cross-source check (no file name)
Caveat(file, message) == [file |-> file, message |-> message]

\* the WARN messages of a failed file are left out
FileCaveats_UnlessFailed(fr) ==
  IF fr.overall_status = "FAIL" THEN <<>>
  ELSE LET warns == SelectSeq(fr.checks, LAMBDA c : c.status = "WARN")
       IN  [k \in 1..Len(warns) |-> Caveat(fr.filepath, warns[k].message)]

\* for check in fr.checks: if check.status == "WARN": caveats.append(...)
FileCaveats(fr) ==
  LET warns == SelectSeq(fr.checks, LAMBDA c : c.status = "WARN")
  IN  [k \in 1..Len(warns) |-> Caveat(fr.filepath, warns[k].message)]

\* for fr in file_results, from entry i on; acc holds overall and caveats
RECURSIVE FileLoop(_, _, _)
FileLoop(file_results, i, acc) ==
  IF i > Len(file_results) THEN acc
  ELSE LET fr == file_results[i]
       IN  FileLoop(file_results, i + 1,
             [overall |-> WorseOverall(acc.overall, fr.overall_status),
              caveats |-> acc.caveats \o FileCaveats(fr)])

\* for cs in cross_source, from entry i on: the message of a WARN is added
\* to the caveats in the branch that raises overall to WARN
RECURSIVE CrossLoop(_, _, _)
CrossLoop(cross_source, i, acc) ==
  IF i > Len(cross_source) THEN acc
  ELSE LET cs == cross_source[i]
       IN  CrossLoop(cross_source, i + 1,
             IF cs.status = "FAIL" THEN [acc EXCEPT !.overall = "FAIL"]
             ELSE IF cs.status = "WARN" /\ acc.overall # "FAIL"
             THEN [overall |-> "WARN",
                   caveats |-> Append(acc.caveats, Caveat(<<>>, cs.message))]
             ELSE acc)

\* Gate decision
GateDecision(overall) ==
  IF overall = "FAIL" THEN "BLOCK"
  ELSE IF overall = "WARN" THEN "PROCEED_WITH_CAVEATS"
  ELSE "PROCEED"

\* run_validation of validate_data.py; saved tells whether dq_results.json
\* was written
validate_data_run_validation(files) ==
  IF Len(files) = 0
  THEN [overall_status |-> "PASS", files |-> <<>>, cross_source |-> <<>>,
        gate_decision |-> "PROCEED", caveats |-> <<>>, saved |-> FALSE]
  ELSE
    LET file_results == [i \in 1..Len(files) |-> validate_file(files[i])]
        cross_source == validate_cross_source(files)
        acc == CrossLoop(cross_source, 1,
                 FileLoop(file_results, 1, [overall |-> "PASS", caveats |-> <<>>]))
    IN  [overall_status |-> acc.overall,
         files          |-> file_results,
         cross_source   |-> cross_source,
         gate_decision  |-> GateDecision(acc.overall),
         caveats        |-> acc.caveats,
         saved          |-> TRUE]

\* file names: stems split at the underscores
D0101 == <<"2","0","2","6","-","0","1","-","0","1">>
D0107 == <<"2","0","2","6","-","0","1","-","0","7">>
D0201 == <<"2","0","2","6","-","0","2","-","0","1">>
D0207 == <<"2","0","2","6","-","0","2","-","0","7">>
GeoNA  == <<"n","a">>
GeoAll == <<"a","l","l">>
To     == <<"t","o">>

NameGoogleAdsJan == <<GoogleAds, GeoNA, D0101, To, D0107>>
NameGscFeb       == <<Gsc, GeoNA, D0201, To, D0207>>
NameEmailJan     == <<Email, GeoAll, D0101, To, D0107>>
NameDisplayToday == <<Display, GeoAll, D0101>>

\* a google-ads file with nothing wrong
CleanFile ==
  [name |-> NameGoogleAdsJan, read |-> "ok", schema_file |-> TRUE,
   rules_loaded |-> TRUE, cols |-> [c \in Columns |-> "clean"],
   expected_days |-> 10, missing_days |-> 0, violations |-> FALSE]

\* the files that differ from f in one respect
OneChange(f) ==
  {[f EXCEPT !.name = n] : n \in {NameGscFeb, NameEmailJan, NameDisplayToday}}
  \cup {[f EXCEPT !.read = r] : r \in {"error", "empty"}}
  \cup {[f EXCEPT !.schema_file = FALSE], [f EXCEPT !.rules_loaded = FALSE]}
  \cup {[f EXCEPT !.cols[c] = s] : c \in Columns, s \in ColumnStates}
  \cup {[f EXCEPT !.missing_days = m] : m \in {3, 4}}

\* the files validated: the clean file, the files with one thing wrong, and
\* each of them again with values outside the sanity bounds
ValidatedFiles ==
  LET singles == {CleanFile} \cup OneChange(CleanFile)
  IN  singles \cup {[f EXCEPT !.violations = TRUE] : f \in singles}

ValInit ==
  /\ val \in {[pc |-> "call", files |-> fs, result |-> None] :
                fs \in SeqsUpTo(ValidatedFiles, MaxFiles)}
  /\ syn = Idle /\ cls = Idle /\ fv = Idle /\ pipe = Idle /\ pre = Idle

RunValidation ==
  /\ val.pc = "call"
  /\ val' = [val EXCEPT !.pc = "done",
                        !.result = validate_data_run_validation(val.files)]
  /\ UNCHANGED <<syn, cls, fv, pipe, pre>>

ValNext == RunValidation

SpecValidate == ValInit /\ [][ValNext]_vars

\* the statuses the returned dict reports: each file's overall_status and
\* each cross-source check's status
ReportedStatuses ==
  {val.result.files[i].overall_status : i \in 1..Len(val.result.files)}
  \cup {val.result.cross_source[i].status : i \in 1..Len(val.result.cross_source)}

\* C3: the gate returned by run_validation is BLOCK if a file status or a
\* cross-source check is FAIL, else PROCEED_WITH_CAVEATS if one is WARN,
\* else PROCEED, for every list of files in every order.
C3_GateIsWorstStatus ==
  val.pc = "done" =>
    val.result.gate_decision =
      IF "FAIL" \in ReportedStatuses THEN "BLOCK"
      ELSE IF "WARN" \in ReportedStatuses THEN "PROCEED_WITH_CAVEATS"
      ELSE "PROCEED"

\* a failed file comes before a file with a warning, and the gate blocks
C3_Witness ==
  /\ val.pc = "done"
  /\ Len(val.result.files) = 2
  /\ val.result.files[1].overall_status = "FAIL"
  /\ val.result.files[2].overall_status = "WARN"
  /\ val.result.gate_decision = "BLOCK"

\* C4: the caveats returned by run_validation hold the message of every
\* WARN check of every file and of every WARN cross-source check, whatever
\* the overall status is.
C4_CaveatsHoldEveryWarn ==
  val.pc = "done" =>
    /\ \A i \in 1..Len(val.result.files) :
         \A k \in 1..Len(val.result.files[i].checks) :
           LET c == val.result.files[i].checks[k]
           IN  c.status = "WARN" =>
                 Caveat(val.result.files[i].filepath, c.message) \in Range(val.result.caveats)
    /\ \A i \in 1..Len(val.result.cross_source) :
         val.result.cross_source[i].status = "WARN" =>
           Caveat(<<>>, val.result.cross_source[i].message) \in Range(val.result.caveats)

\* a file that fails (a required column is missing) and has a warning of its
\* own (sanity bounds): the overall status is FAIL and the warning is a caveat
C4_Witness ==
  /\ val.pc = "done"
  /\ val.result.overall_status = "FAIL"
  /\ \E i \in 1..Len(val.result.files) :
       /\ val.result.files[i].overall_status = "FAIL"
       /\ \E k \in 1..Len(val.result.files[i].checks) :
            /\ val.result.files[i].checks[k].status = "WARN"
            /\ Caveat(val.result.files[i].filepath, val.result.files[i].checks[k].message)
                 \in Range(val.result.caveats)

\* ------------------------------------------------------------------------
\* run_analysis.py: data discovery
\* ------------------------------------------------------------------------

\* FILE_PREFIX_MAP, in the order of its declaration
FILE_PREFIX_MAP ==
  << [prefix |-> <<"g","o","o","g","l","e","-","a","d","s">>, channel |-> "sem"],
     [prefix |-> <<"b","r","a","n","d","-","c","a","m","p","a","i","g","n">>, channel |-> "brand_campaign"],
     [prefix |-> <<"g","s","c">>, channel |-> "seo"],
     [prefix |-> <<"a","f","f","i","l","i","a","t","e">>, channel |-> "affiliate"],
     [prefix |-> <<"d","i","s","p","l","a","y">>, channel |-> "display"],
     [prefix |-> <<"s","o","c","i","a","l","-","p","a","i","d">>, channel |-> "promoted_social"],
     [prefix |-> <<"m","e","t","a","s","e","a","r","c","h">>, channel |-> "metasearch"],
     [prefix |-> <<"e","m","a","i","l">>, channel |-> "email"],
     [prefix |-> <<"p","u","s","h">>, channel |-> "push_notification"],
     [prefix |-> <<"s","m","s">>, channel |-> "sms"],
     [prefix |-> <<"s","o","c","i","a","l","-","o","r","g","a","n","i","c">>, channel |-> "managed_social"],
     [prefix |-> <<"r","e","f","e","r","r","a","l">>, channel |-> "free_referral"],
     [prefix |-> <<"d","i","s","t","r","i","b","u","t","i","o","n">>, channel |-> "distribution"],
     [prefix |-> <<"r","e","f","e","r","r","a","l","-","p","r","o","g","r","a","m">>, channel |-> "paid_user_referral"],
     [prefix |-> <<"p","r","o","m","o">>, channel |-> "promo"] >>

\* the channel of the first prefix of FILE_PREFIX_MAP the file name starts
\* with, None when there is none (the loop with its break)
ChannelOfFile(name) ==
  LET n    == Lower(JoinWith(name, <<"_">>))
      hits == {k \in 1..Len(FILE_PREFIX_MAP) : StartsWith(n, FILE_PREFIX_MAP[k].prefix)}
  IN  IF hits = {} THEN None
      ELSE FILE_PREFIX_MAP[CHOOSE k \in hits : \A j \in hits : k <= j].channel

\* get_available_data: the files of data/validated in the order glob gives
\* them; the result is the dict channel -> files, kept as the channels in
\* the order of their first file and the files of each channel
RECURSIVE AvailableLoop(_, _, _)
AvailableLoop(listing, i, available) ==
  IF i > Len(listing) THEN available
  ELSE LET channel == ChannelOfFile(listing[i])
       IN  AvailableLoop(listing, i + 1,
             IF channel = None THEN available
             ELSE [keys  |-> IF channel \in Range(available.keys) THEN available.keys
                             ELSE Append(available.keys, channel),
                   files |-> Append(available.files, <<channel, listing[i]>>)])

get_available_data(listing) ==
  AvailableLoop(listing, 1, [keys |-> <<>>, files |-> <<>>])

\* the channel is listed as active although it has no data
IsActive_Always(ch, available_data) == TRUE

\* if ch in available_data
IsActive(ch, available_data) == ch \in Range(available_data.keys)

\* filter_channels_by_data
filter_channels_by_data(requested_channels, available_data) ==
  [active  |-> SelectSeq(requested_channels, LAMBDA ch : IsActive(ch, available_data)),
   skipped |-> SelectSeq(requested_channels, LAMBDA ch : ~IsActive(ch, available_data))]

\* the orders in which glob can list a set of files
Listings(files) ==
  {l \in [1..Cardinality(files) -> files] : Range(l) = files}

\* standardized files that may lie in data/validated
DataFiles ==
  { <<GoogleAds, GeoNA, D0101, To, D0107>>,
    <<Display, GeoAll, D0101, To, D0107>>,
    <<Email, GeoAll, D0101, To, D0107>> }

\* ------------------------------------------------------------------------
\* run_analysis.py: run_pipeline, one action per step
\*
\* pipe holds the arguments, the locals and pipeline_result (status, steps),
\* the files the run has written (written), the stage banners it has printed
\* (stages), the files of data/validated (validated) and what the validator
\* process did when it was run (validator), which the code does not keep.
\* ------------------------------------------------------------------------

\* the steps of run_pipeline in the order of its code
StageOrder ==
  << "classify", "preprocess", "validate", "dispatch", "group_synthesis",
     "hypothesis", "top_synthesis", "format", "summary" >>

StageIndex(stage) == CHOOSE k \in 1..Len(StageOrder) : StageOrder[k] = stage

\* the hypothesis prompt is prepared right after dispatch, before the group
\* synthesis prompts
After_HypothesisFirst(stage) ==
  CASE stage = "dispatch"        -> "hypothesis"
    [] stage = "hypothesis"      -> "group_synthesis"
    [] stage = "group_synthesis" -> "top_synthesis"
    [] stage = "summary"         -> "returned"
    [] OTHER -> StageOrder[StageIndex(stage) + 1]

\* the step that follows a step that does not return
After(stage) ==
  IF stage = "summary" THEN "returned" ELSE StageOrder[StageIndex(stage) + 1]

\* files written by run_pipeline
PromptFile(ch)          == [kind |-> "prompt", of |-> ch]
GroupPromptFile(group)  == [kind |-> "group_synthesis_prompt", of |-> group]
HypothesisPromptFile    == [kind |-> "hypothesis_prompt", of |-> ""]
TopSynthesisPromptFile  == [kind |-> "top_synthesis_prompt", of |-> ""]
PipelineResultFile      == [kind |-> "pipeline_result", of |-> ""]

\* pipeline_result["steps"][name] = value
Record(steps, name, value) == Append(steps, [step |-> name, value |-> value])

Recorded(steps) == {steps[i].step : i \in 1..Len(steps)}

\* the keyword classification is used although channels were passed
UseExplicit_UnlessKeywords(channels, query) ==
  Len(channels) > 0 /\ classify_query(query).match_type = "fallback"

\* if channels:
UseExplicit(channels, query) == Len(channels) > 0

\* the classification built from an explicit channel list
ExplicitClassification(channels) ==
  [channels       |-> channels,
   groups         |-> GroupsOf(channels),
   self_contained |-> FALSE,
   all_channels   |-> FALSE,
   match_type     |-> "explicit",
   best_match     |-> 0]

\* Step 1
Classify ==
  /\ pipe.pc = "classify"
  /\ LET classification ==
           IF UseExplicit(pipe.channels, pipe.query)
           THEN ExplicitClassification(pipe.channels)
           ELSE classify_query(pipe.query)
         p == [pipe EXCEPT !.classification = classification,
                           !.stages = Append(@, "classify"),
                           !.steps = Record(@, "classify", classification)]
     IN  IF /\ classification.match_type = "fallback"
            /\ Len(pipe.channels) = 0
            /\ ~pipe.preprocess_only
         THEN pipe' = [p EXCEPT !.status = "no_match", !.pc = "returned"]
         ELSE pipe' = [p EXCEPT !.pc = After("classify")]
  /\ UNCHANGED <<syn, cls, fv, val, pre>>

\* what the preprocessor process can do
PreprocessorOutcomes ==
  {"exit_nonzero", "timeout", "not_found", "invalid_json", "empty_stdout",
   "no_files", "results"}

\* run_preprocessor: the dict (or list) it returns, by its status
run_preprocessor(outcome) ==
  CASE outcome \in {"exit_nonzero", "timeout", "not_found", "invalid_json"}
         -> [status |-> "error"]
    [] outcome = "empty_stdout" -> [status |-> "no_output"]
    [] outcome = "no_files"     -> [status |-> "no_files"]
    [] outcome = "results"      -> [status |-> "list"]

\* Step 2.  A preprocessor that processes files may add standardized files
\* to data/validated unless it was started with --dry-run.
Preprocess ==
  /\ pipe.pc = "preprocess"
  /\ \/ /\ ~pipe.skip_preprocess
        /\ \E outcome \in PreprocessorOutcomes, new \in SUBSET DataFiles :
             /\ (outcome # "results" \/ pipe.dry_run) => new = {}
             /\ Cardinality(new) <= 1
             /\ LET p == [pipe EXCEPT !.stages = Append(@, "preprocess"),
                                      !.steps = Record(@, "preprocess", run_preprocessor(outcome)),
                                      !.validated = @ \cup new]
                IN  IF pipe.preprocess_only
                    THEN pipe' = [p EXCEPT !.status = "preprocess_only", !.pc = "returned"]
                    ELSE pipe' = [p EXCEPT !.pc = After("preprocess")]
     \/ /\ pipe.skip_preprocess
        /\ LET p == [pipe EXCEPT !.stages = Append(@, "preprocess"),
                                 !.steps = Record(@, "preprocess", [status |-> "skipped"])]
           IN  IF pipe.preprocess_only
               THEN pipe' = [p EXCEPT !.status = "preprocess_only", !.pc = "returned"]
               ELSE pipe' = [p EXCEPT !.pc = After("preprocess")]
  /\ UNCHANGED <<syn, cls, fv, val, pre>>

\* what the validator process can do: fail in one of four ways, print
\* nothing, or print a JSON document with or without a gate_decision
ValidatorOutcomes ==
  {"exit_nonzero", "timeout", "not_found", "invalid_json", "empty_stdout",
   "json_PROCEED", "json_PROCEED_WITH_CAVEATS", "json_BLOCK", "json_no_gate"}

\* run_validation of run_analysis.py: the dict it returns; gate_decision is
\* None when the dict has no such key
run_validation(outcome) ==
  CASE outcome \in {"exit_nonzero", "timeout", "not_found", "invalid_json"}
         -> [gate_decision |-> "BLOCK", error |-> TRUE]
    [] outcome = "empty_stdout" -> [gate_decision |-> "PROCEED", error |-> FALSE]
    [] outcome = "json_PROCEED" -> [gate_decision |-> "PROCEED", error |-> FALSE]
    [] outcome = "json_PROCEED_WITH_CAVEATS"
         -> [gate_decision |-> "PROCEED_WITH_CAVEATS", error |-> FALSE]
    [] outcome = "json_BLOCK"   -> [gate_decision |-> "BLOCK", error |-> FALSE]
    [] outcome = "json_no_gate" -> [gate_decision |-> None, error |-> FALSE]

\* validation_result.get("gate_decision", "PROCEED")
GateOf(validation_result) ==
  IF validation_result.gate_decision = None THEN "PROCEED"
  ELSE validation_result.gate_decision

\* the run goes on whatever the gate says
Blocked_Never(gate) == FALSE

\* if gate == "BLOCK"
Blocked(gate) == gate = "BLOCK"

\* Step 3
Validate ==
  /\ pipe.pc = "validate"
  /\ \E outcome \in ValidatorOutcomes :
       LET validation_result == run_validation(outcome)
           gate == GateOf(validation_result)
           p == [pipe EXCEPT !.stages = Append(@, "validate"),
                             !.steps = Record(@, "validate", validation_result),
                             !.validator = outcome,
                             !.gate = gate]
       IN  IF Blocked(gate)
           THEN pipe' = [p EXCEPT !.status = "blocked_by_quality", !.pc = "returned"]
           ELSE pipe' = [p EXCEPT !.pc = After("validate")]
  /\ UNCHANGED <<syn, cls, fv, val, pre>>

\* the channels asked for: all that have data for an all-channels query or
\* an empty channel list, else the classified channels
Requested(classification, available_data) ==
  IF classification.all_channels THEN available_data.keys
  ELSE IF Len(classification.channels) > 0 THEN classification.channels
  ELSE available_data.keys

\* the run dispatches even without an active channel
NoActiveChannels_Never(active_channels) == FALSE

\* if not active_channels
NoActiveChannels(active_channels) == Len(active_channels) = 0

\* Step 4
Dispatch ==
  /\ pipe.pc = "dispatch"
  /\ \E listing \in Listings(pipe.validated) :
       LET available_data == get_available_data(listing)
           requested == Requested(pipe.classification, available_data)
           filtered  == filter_channels_by_data(requested, available_data)
           active_channels == filtered.active
           p == [pipe EXCEPT !.stages = Append(@, "dispatch"),
                             !.requested = requested,
                             !.available = Range(available_data.keys),
                             !.active_channels = active_channels,
                             !.skipped = filtered.skipped]
       IN  IF NoActiveChannels(active_channels)
           THEN pipe' = [p EXCEPT !.status = "no_data", !.pc = "returned"]
           ELSE pipe' =
                  [p EXCEPT
                     !.written = @ \o [k \in 1..Len(active_channels) |->
                                         PromptFile(active_channels[k])],
                     !.steps = Record(@, "dispatch",
                                 [active_channels  |-> active_channels,
                                  active_groups    |-> GroupsOf(active_channels),
                                  skipped_channels |-> filtered.skipped]),
                     !.pc = After("dispatch")]
  /\ UNCHANGED <<syn, cls, fv, val, pre>>

\* Step 5
GroupSynthesis ==
  /\ pipe.pc = "group_synthesis"
  /\ LET levels == determine_synthesis_levels(pipe.active_channels)
         groups == levels.group_synthesis
     IN  pipe' =
           [pipe EXCEPT
              !.stages = Append(@, "group_synthesis"),
              !.group_synthesis_groups = groups,
              !.needs_top_synthesis = levels.needs_top_synthesis,
              !.written = @ \o [k \in 1..Len(groups) |-> GroupPromptFile(groups[k])],
              !.steps = Record(@, "group_synthesis",
                          IF Len(groups) > 0 THEN [groups |-> groups]
                          ELSE [status |-> "skipped"]),
              !.pc = After("group_synthesis")]
  /\ UNCHANGED <<syn, cls, fv, val, pre>>

\* Step 6
Hypothesis ==
  /\ pipe.pc = "hypothesis"
  /\ pipe' = [pipe EXCEPT
                !.stages = Append(@, "hypothesis"),
                !.written = Append(@, HypothesisPromptFile),
                !.steps = Record(@, "hypothesis", [prompt_written |-> TRUE]),
                !.pc = After("hypothesis")]
  /\ UNCHANGED <<syn, cls, fv, val, pre>>

\* Step 7
TopSynthesis ==
  /\ pipe.pc = "top_synthesis"
  /\ pipe' = [pipe EXCEPT
                !.stages = Append(@, "top_synthesis"),
                !.written = IF pipe.needs_top_synthesis
                            THEN Append(@, TopSynthesisPromptFile) ELSE @,
                !.steps = Record(@, "top_synthesis",
                            IF pipe.needs_top_synthesis THEN [prompt_written |-> TRUE]
                            ELSE [status |-> "skipped"]),
                !.pc = After("top_synthesis")]
  /\ UNCHANGED <<syn, cls, fv, val, pre>>

\* Step 8
Format ==
  /\ pipe.pc = "format"
  /\ pipe' = [pipe EXCEPT
                !.stages = Append(@, "format"),
                !.steps = Record(@, "format", [template |-> "template"]),
                !.pc = After("format")]
  /\ UNCHANGED <<syn, cls, fv, val, pre>>

\* Step 9
Summary ==
  /\ pipe.pc = "summary"
  /\ pipe' = [pipe EXCEPT
                !.stages = Append(@, "summary"),
                !.status = "ready",
                !.written = Append(@, PipelineResultFile),
                !.pc = After("summary")]
  /\ UNCHANGED <<syn, cls, fv, val, pre>>

\* queries of the pipeline runs: none, one without a keyword, one channel,
\* a group of channels, all channels
PipeQueries ==
  { <<>>,
    <<"h","o","w">>,
    <<"e","m","a","i","l">>,
    <<"p","a","i","d">>,
    <<"t","o","t","a","l">> }

\* names an explicit channel list is made of; the last is no channel
ExplicitChannels == {"sem", "display", "email", "tv"}

\* query and channel list of a run: every query without a channel list, and
\* every channel list with no query and with a query that names a channel
PipeArguments ==
  {<<q, <<>> >> : q \in PipeQueries}
  \cup {<<q, chs>> : q \in {<<>>, <<"e","m","a","i","l">>},
                     chs \in SeqsUpTo(ExplicitChannels, MaxExplicit) \ {<<>>}}

Init ==
  /\ pipe \in
       {[pc |-> "classify", query |-> q, channels |-> chs,
         skip_preprocess |-> sp, preprocess_only |-> po, dry_run |-> dr,
         status |-> "running", steps |-> <<>>, written |-> <<>>, stages |-> <<>>,
         validated |-> v, classification |-> None, gate |-> None, validator |-> None,
         requested |-> <<>>, available |-> {}, active_channels |-> <<>>,
         skipped |-> <<>>, group_synthesis_groups |-> <<>>,
         needs_top_synthesis |-> FALSE] :
          <<q, chs>> \in PipeArguments,
          sp \in BOOLEAN, po \in BOOLEAN, dr \in BOOLEAN, v \in SUBSET DataFiles}
  /\ syn = Idle /\ cls = Idle /\ fv = Idle /\ val = Idle /\ pre = Idle

Next ==
  \/ Classify
  \/ Preprocess
  \/ Validate
  \/ Dispatch
  \/ GroupSynthesis
  \/ Hypothesis
  \/ TopSynthesis
  \/ Format
  \/ Summary

Spec == Init /\ [][Next]_vars

\* the value recorded for a step of pipeline_result
ValidateStepSaysBlock ==
  \E i \in 1..Len(pipe.steps) :
    pipe.steps[i].step = "validate" /\ pipe.steps[i].value.gate_decision = "BLOCK"

StepsAfterValidate ==
  {"dispatch", "group_synthesis", "hypothesis", "top_synthesis", "format"}

\* C1: once the validation step has given gate_decision BLOCK the run has
\* returned with status blocked_by_quality, has written no file and has
\* recorded no dispatch, group_synthesis, hypothesis, top_synthesis or
\* format step.
C1_BlockStopsPipeline ==
  ValidateStepSaysBlock =>
    /\ pipe.pc = "returned"
    /\ pipe.status = "blocked_by_quality"
    /\ pipe.written = <<>>
    /\ Recorded(pipe.steps) \cap StepsAfterValidate = {}

\* the validator ran to its end and printed BLOCK for a query that names a
\* channel whose data file is there
C1_Witness ==
  /\ ValidateStepSaysBlock
  /\ \E i \in 1..Len(pipe.steps) :
       pipe.steps[i].step = "validate" /\ ~pipe.steps[i].value.error
  /\ pipe.query = <<"e","m","a","i","l">>
  /\ <<Email, GeoAll, D0101, To, D0107>> \in pipe.validated
  /\ pipe.status = "blocked_by_quality"

\* C5: the stages of a run are entered in the order classify, preprocess,
\* validate, dispatch, group synthesis, hypothesis, top synthesis, format,
\* summary, and when the hypothesis or the top-synthesis prompt is written
\* the prompt of every active channel and of every group the planner
\* schedules has been written before it.
C5_StagesInFixedOrder ==
  /\ \A i, j \in 1..Len(pipe.stages) :
       i < j => StageIndex(pipe.stages[i]) < StageIndex(pipe.stages[j])
  /\ \A k \in 1..Len(pipe.written) :
       pipe.written[k].kind \in {"hypothesis_prompt", "top_synthesis_prompt"} =>
         /\ \A ch \in Range(pipe.active_channels) :
              \E j \in 1..(k - 1) : pipe.written[j] = PromptFile(ch)
         /\ \A g \in Range(determine_synthesis_levels(pipe.active_channels).group_synthesis) :
              \E j \in 1..(k - 1) : pipe.written[j] = GroupPromptFile(g)

\* a full run over three channels of two groups: every stage ran, and a
\* group prompt and the top-synthesis prompt were written
C5_Witness ==
  /\ pipe.pc = "returned"
  /\ pipe.status = "ready"
  /\ pipe.stages = StageOrder
  /\ Len(pipe.active_channels) = 3
  /\ GroupPromptFile("paid") \in Range(pipe.written)
  /\ TopSynthesisPromptFile \in Range(pipe.written)

\* the channels that have a data file, read off the file names
ChannelsWithData == {ChannelOfFile(f) : f \in pipe.validated} \ {None}

\* the channels the run asks for
ChannelsAskedFor ==
  IF pipe.classification.all_channels \/ Len(pipe.classification.channels) = 0
  THEN ChannelsWithData
  ELSE Range(pipe.classification.channels)

\* C6: when the run reaches step 4 (the gate was not BLOCK) and none of the
\* channels asked for has a data file, it has returned with status no_data,
\* has written no file and has recorded no dispatch step.
C6_NoDataStopsBeforeDispatch ==
  ("dispatch" \in Range(pipe.stages) /\ ChannelsAskedFor \cap ChannelsWithData = {}) =>
    /\ pipe.pc = "returned"
    /\ pipe.status = "no_data"
    /\ pipe.status # "blocked_by_quality"
    /\ pipe.written = <<>>
    /\ "dispatch" \notin Recorded(pipe.steps)

\* data files are there, the gate lets the run pass, and the only channel
\* asked for has no file
C6_Witness ==
  /\ "dispatch" \in Range(pipe.stages)
  /\ pipe.channels = <<"tv">>
  /\ pipe.validated # {}
  /\ pipe.gate = "PROCEED_WITH_CAVEATS"
  /\ pipe.status = "no_data"

\* C9: with a non-empty explicit channel list the classification has
\* match_type explicit, its channels are the list as given and its groups
\* are the CHANNEL_GROUPS groups of the listed channels, whatever the query.
C9_ExplicitListBypassesKeywords ==
  (pipe.pc # "classify" /\ Len(pipe.channels) > 0) =>
    /\ pipe.classification.match_type = "explicit"
    /\ pipe.classification.channels = pipe.channels
    /\ pipe.classification.groups = {GroupOf(ch) : ch \in Range(pipe.channels)} \ {None}
    /\ pipe.steps[1] = [step |-> "classify", value |-> pipe.classification]

\* the query names the email channel, the list holds sem and a name that is
\* no channel
C9_Witness ==
  /\ pipe.pc # "classify"
  /\ pipe.query = <<"e","m","a","i","l">>
  /\ pipe.channels = <<"sem", "tv">>
  /\ pipe.classification.match_type = "explicit"
  /\ pipe.classification.groups = {"paid"}

\* the groups, by CHANNEL_GROUPS, that the channels of a list belong to
DistinctGroups(channels) == {GroupOf(ch) : ch \in Range(channels)} \ {None}

\* C11: the flag needs_top_synthesis returned by determine_synthesis_levels
\* is true if and only if the active channels belong to at least 2 distinct
\* groups, and a run of the pipeline has written the top-synthesis prompt
\* once it is past step 7 exactly when the flag is true (and never before).
C11_TopSynthesisIffTwoGroups ==
  /\ syn.pc = "done" =>
       (syn.result.needs_top_synthesis
          <=> Cardinality(DistinctGroups(syn.active_channels)) >= 2)
  /\ pipe.pc # "idle" =>
       /\ "group_synthesis" \in Range(pipe.stages) =>
            (pipe.needs_top_synthesis
               <=> Cardinality(DistinctGroups(pipe.active_channels)) >= 2)
       /\ (TopSynthesisPromptFile \in Range(pipe.written))
            <=> ("top_synthesis" \in Range(pipe.stages) /\ pipe.needs_top_synthesis)

\* a run past step 7 whose two active channels are of one group: the group
\* prompt is written and the top-synthesis prompt is not
C11_Witness ==
  /\ pipe.pc = "format"
  /\ pipe.active_channels = <<"display", "sem">>
  /\ ~pipe.needs_top_synthesis
  /\ GroupPromptFile("paid") \in Range(pipe.written)
  /\ TopSynthesisPromptFile \notin Range(pipe.written)

\* ------------------------------------------------------------------------
\* determine_synthesis_levels called on a list and on a permutation of it
\* ------------------------------------------------------------------------

PermChannels == {"sem", "display", "email", "sms", "promo"}

\* the lists that hold the entries of a in another (or the same) order
PermutationsOf(a) ==
  {[i \in 1..Len(a) |-> a[f[i]]] : f \in Permutations(1..Len(a))}

PermInit ==
  /\ \E a \in SeqsUpTo(PermChannels, MaxPermuted) :
       \E b \in PermutationsOf(a) :
         syn = [pc |-> "first", active_channels |-> a, permuted |-> b,
                result |-> None, permuted_result |-> None]
  /\ cls = Idle /\ fv = Idle /\ val = Idle /\ pipe = Idle /\ pre = Idle

PlanFirst ==
  /\ syn.pc = "first"
  /\ syn' = [syn EXCEPT !.pc = "second",
                        !.result = determine_synthesis_levels(syn.active_channels)]
  /\ UNCHANGED <<cls, fv, val, pipe, pre>>

PlanPermuted ==
  /\ syn.pc = "second"
  /\ syn' = [syn EXCEPT !.pc = "both",
                        !.permuted_result = determine_synthesis_levels(syn.permuted)]
  /\ UNCHANGED <<cls, fv, val, pipe, pre>>

PermNext == PlanFirst \/ PlanPermuted

SpecPermuted == PermInit /\ [][PermNext]_vars

\* C12 as stated: for two active-channel lists that are permutations of each
\* other determine_synthesis_levels returns identical results, the same
\* group-synthesis list and the same top-level flag.
C12_PermutationSameList ==
  syn.pc = "both" => syn.result = syn.permuted_result

\* C12 as amended: for two active-channel lists that are permutations of
\* each other determine_synthesis_levels schedules the same groups (the two
\* group-synthesis lists hold the same groups, each once, possibly in a
\* different order) and returns the same top-level flag.
C12_PermutationSameGroups ==
  syn.pc = "both" =>
    /\ Range(syn.result.group_synthesis) = Range(syn.permuted_result.group_synthesis)
    /\ Len(syn.result.group_synthesis) = Len(syn.permuted_result.group_synthesis)
    /\ Cardinality(Range(syn.result.group_synthesis)) = Len(syn.result.group_synthesis)
    /\ syn.result.needs_top_synthesis = syn.permuted_result.needs_top_synthesis

\* two groups of two channels each, given lifecycle first and paid first:
\* both groups are scheduled both times, in the order the list names them
C12_Witness ==
  /\ syn.pc = "both"
  /\ syn.active_channels = <<"email", "sms", "sem", "display">>
  /\ syn.permuted = <<"sem", "display", "email", "sms">>
  /\ syn.result.group_synthesis = <<"lifecycle", "paid">>
  /\ syn.permuted_result.group_synthesis = <<"paid", "lifecycle">>
  /\ syn.result.needs_top_synthesis /\ syn.permuted_result.needs_top_synthesis

\* C13: after determine_synthesis_levels the group-synthesis list contains
\* neither 'distribution' nor 'pricing', whatever the active channels are,
\* the list with both 'distribution' and 'paid_user_referral' included.
C13_ThinGroupsNeverScheduled ==
  syn.pc = "done" =>
    /\ "distribution" \notin Range(syn.result.group_synthesis)
    /\ "pricing" \notin Range(syn.result.group_synthesis)

\* C14: once step 4 has filtered the requested channels, every requested
\* channel is in exactly one of the active and skipped lists, the two lists
\* hold nothing else and as many entries as were requested, a requested
\* channel is active exactly when at least one data file maps to it, and
\* the dispatch step, when recorded, reports both lists.
C14_FilterPartitionsRequested ==
  "dispatch" \in Range(pipe.stages) =>
    /\ \A ch \in Range(pipe.requested) :
         /\ (ch \in Range(pipe.active_channels)) # (ch \in Range(pipe.skipped))
         /\ (ch \in Range(pipe.active_channels)) <=> (ch \in ChannelsWithData)
    /\ Range(pipe.active_channels) \cup Range(pipe.skipped) = Range(pipe.requested)
    /\ Len(pipe.active_channels) + Len(pipe.skipped) = Len(pipe.requested)
    /\ \A k \in 1..Len(pipe.steps) :
         pipe.steps[k].step = "dispatch" =>
           /\ pipe.steps[k].value.active_channels = pipe.active_channels
           /\ pipe.steps[k].value.skipped_channels = pipe.skipped

\* a run asked for email and tv with a file for email only: email is
\* dispatched, tv is reported as skipped
C14_Witness ==
  /\ "dispatch" \in Recorded(pipe.steps)
  /\ pipe.requested = <<"email", "tv">>
  /\ pipe.active_channels = <<"email">>
  /\ pipe.skipped = <<"tv">>
  /\ PromptFile("email") \in Range(pipe.written)
  /\ PromptFile("tv") \notin Range(pipe.written)

\* ------------------------------------------------------------------------
\* preprocess.py: identify_source
\* ------------------------------------------------------------------------

\* column names, each the sequence of its characters
Col_Activations == <<"A","c","t","i","v","a","t","i","o","n","s">>
Col_Bookings == <<"B","o","o","k","i","n","g","s">>
Col_CTR == <<"C","T","R">>
Col_Campaign == <<"C","a","m","p","a","i","g","n">>
Col_Clicks == <<"C","l","i","c","k","s">>
Col_Commission == <<"C","o","m","m","i","s","s","i","o","n">>
Col_Conversions == <<"C","o","n","v","e","r","s","i","o","n","s">>
Col_Cost == <<"C","o","s","t">>
Col_Delivered == <<"D","e","l","i","v","e","r","e","d">>
Col_Dimension1 == <<"D","i","m","e","n","s","i","o","n"," ","1">>
Col_Dimension2 == <<"D","i","m","e","n","s","i","o","n"," ","2">>
Col_DiscountAmount == <<"D","i","s","c","o","u","n","t"," ","A","m","o","u","n","t">>
Col_Engagement == <<"E","n","g","a","g","e","m","e","n","t">>
Col_Impressions == <<"I","m","p","r","e","s","s","i","o","n","s">>
Col_IncentiveCost == <<"I","n","c","e","n","t","i","v","e"," ","C","o","s","t">>
Col_M1PlusVFM == <<"M","1","+","V","F","M">>
Col_Opens == <<"O","p","e","n","s">>
Col_Orders == <<"O","r","d","e","r","s">>
Col_Page == <<"P","a","g","e">>
Col_Partner == <<"P","a","r","t","n","e","r">>
Col_Position == <<"P","o","s","i","t","i","o","n">>
Col_PromoName == <<"P","r","o","m","o"," ","N","a","m","e">>
Col_Publisher == <<"P","u","b","l","i","s","h","e","r">>
Col_Reach == <<"R","e","a","c","h">>
Col_Revenue == <<"R","e","v","e","n","u","e">>
Col_Sent == <<"S","e","n","t">>
Col_Spend == <<"S","p","e","n","d">>
Col_Transactions == <<"T","r","a","n","s","a","c","t","i","o","n","s">>

\* (source_name, required columns), in the order of the list
SOURCE_SIGNATURES ==
  <<[source_name |-> "halo",
      required |-> {Col_Dimension1, Col_Dimension2, Col_Activations, Col_Impressions, Col_Spend, Col_M1PlusVFM}],
     [source_name |-> "gsc",
      required |-> {Col_Page, Col_Impressions, Col_Clicks, Col_CTR, Col_Position}],
     [source_name |-> "google-ads",
      required |-> {Col_Campaign, Col_Impressions, Col_Clicks, Col_Cost, Col_Conversions}],
     [source_name |-> "email",
      required |-> {Col_Campaign, Col_Sent, Col_Delivered, Col_Opens, Col_Clicks}],
     [source_name |-> "push",
      required |-> {Col_Campaign, Col_Sent, Col_Delivered, Col_Opens}],
     [source_name |-> "sms",
      required |-> {Col_Campaign, Col_Sent, Col_Delivered}],
     [source_name |-> "social-paid",
      required |-> {Col_Campaign, Col_Impressions, Col_Clicks, Col_Cost, Col_Reach}],
     [source_name |-> "metasearch",
      required |-> {Col_Campaign, Col_Impressions, Col_Clicks, Col_Cost, Col_Bookings}],
     [source_name |-> "affiliate",
      required |-> {Col_Publisher, Col_Clicks, Col_Commission}],
     [source_name |-> "distribution",
      required |-> {Col_Partner, Col_Transactions, Col_Revenue, Col_Commission}],
     [source_name |-> "referral-program",
      required |-> {Col_Partner, Col_Transactions, Col_IncentiveCost}],
     [source_name |-> "social-organic",
      required |-> {Col_Campaign, Col_Reach, Col_Engagement}],
     [source_name |-> "promo",
      required |-> {Col_PromoName, Col_Orders, Col_Revenue, Col_DiscountAmount}],
     [source_name |-> "display",
      required |-> {Col_Campaign, Col_Impressions, Col_Cost}] >>

\* the superset test in place of the subset test
SignatureMatches_Superset(required, cols) == cols \subseteq required

\* required.issubset(cols)
SignatureMatches(required, cols) == required \subseteq cols

\* {c.lower() for c in ...}
LowerSet(cols) == {Lower(c_) : c_ \in cols}

\* the loop over SOURCE_SIGNATURES that returns at the first match; None
\* when the loop ends without one
FirstSignature(cols, fuzzy) ==
  LET hits == {k \in 1..Len(SOURCE_SIGNATURES) :
                 IF fuzzy
                 THEN SignatureMatches(LowerSet(SOURCE_SIGNATURES[k].required), LowerSet(cols))
                 ELSE SignatureMatches(SOURCE_SIGNATURES[k].required, cols)}
  IN  IF hits = {} THEN None
      ELSE SOURCE_SIGNATURES[CHOOSE k \in hits : \A j \in hits : k <= j].source_name

\* identify_source, given df.columns
identify_source(columns) ==
  LET exact == FirstSignature(columns, FALSE)
  IN  IF exact # None THEN exact ELSE FirstSignature(columns, TRUE)

\* columns the tables are made of: those of the signatures and one more
Col_Country == <<"C","o","u","n","t","r","y">>

SignatureColumns == UNION {SOURCE_SIGNATURES[k].required : k \in 1..Len(SOURCE_SIGNATURES)}

\* column sets identify_source is driven with: the required set of every
\* signature, that set less one column and with one more column, each as
\* written and in lower case, and the table with no column
ColumnSets ==
  LET base == UNION {
        {SOURCE_SIGNATURES[k].required}
        \cup {SOURCE_SIGNATURES[k].required \ {c_} : c_ \in SOURCE_SIGNATURES[k].required}
        \cup {SOURCE_SIGNATURES[k].required \cup {c_} : c_ \in SignatureColumns \cup {Col_Country}}
        : k \in 1..Len(SOURCE_SIGNATURES)}
  IN  base \cup {LowerSet(b) : b \in base} \cup {{}}

IdentifyInit ==
  /\ pre \in {[pc |-> "identify", columns |-> cols, source |-> None] : cols \in ColumnSets}
  /\ syn = Idle /\ cls = Idle /\ fv = Idle /\ val = Idle /\ pipe = Idle

IdentifySource ==
  /\ pre.pc = "identify"
  /\ pre' = [pre EXCEPT !.pc = "identified", !.source = identify_source(pre.columns)]
  /\ UNCHANGED <<syn, cls, fv, val, pipe>>

IdentifyNext == IdentifySource

SpecIdentify == IdentifyInit /\ [][IdentifyNext]_vars

\* C15: identify_source on a table whose column set is exactly the required
\* set of a signature of SOURCE_SIGNATURES returns the source id of that
\* signature (no earlier signature shadows it), and on a column set of which
\* no signature is a case-insensitive subset it returns no source.
C15_IdentifySourceBySignature ==
  pre.pc = "identified" =>
    /\ \A k \in 1..Len(SOURCE_SIGNATURES) :
         pre.columns = SOURCE_SIGNATURES[k].required =>
           pre.source = SOURCE_SIGNATURES[k].source_name
    /\ (\A k \in 1..Len(SOURCE_SIGNATURES) :
          \E c_ \in SOURCE_SIGNATURES[k].required :
            \A d_ \in pre.columns : Lower(d_) # Lower(c_))
         => pre.source = None

\* the push table, whose columns are all among those of the email signature
\* that precedes it, is identified as push
C15_Witness ==
  /\ pre.pc = "identified"
  /\ pre.columns = {Col_Campaign, Col_Sent, Col_Delivered, Col_Opens}
  /\ pre.source = "push"

\* a file of val.files whose source has a schema that declares required a
\* column the table does not have
LacksRequiredColumn(f) ==
  /\ detect_source_from_filename(f.name) \in DOMAIN SOURCE_SCHEMA_MAP
  /\ f.schema_file
  /\ \E c \in DOMAIN SchemaColumns : SchemaColumns[c].required /\ f.cols[c] = "absent"

\* C16: when a validated file lacks a column that the schema of its source
\* declares required, the checks of that file hold a FAIL check of
\* validate_schema (schema_required_columns) if the file was read, the file
\* has overall status FAIL, and run_validation returns gate_decision BLOCK
\* whatever the other files are.
C16_MissingRequiredColumnBlocks ==
  val.pc = "done" =>
    \A i \in 1..Len(val.files) :
      LacksRequiredColumn(val.files[i]) =>
        /\ val.files[i].read = "ok" =>
             \E k \in 1..Len(val.result.files[i].checks) :
               /\ val.result.files[i].checks[k].check = "schema_required_columns"
               /\ val.result.files[i].checks[k].status = "FAIL"
        /\ val.result.files[i].overall_status = "FAIL"
        /\ val.result.overall_status = "FAIL"
        /\ val.result.gate_decision = "BLOCK"

\* a file without its required Clicks column, followed by a file with
\* nothing wrong: the gate blocks
C16_Witness ==
  /\ val.pc = "done"
  /\ Len(val.files) = 2
  /\ val.files[1] = [CleanFile EXCEPT !.cols["Clicks"] = "absent"]
  /\ val.files[2] = CleanFile
  /\ val.result.files[2].overall_status = "PASS"
  /\ val.result.gate_decision = "BLOCK"

\* ------------------------------------------------------------------------
\* preprocess.py: strip_junk_rows
\*
\* A table is the list of its rows and a row the list of its cells; a cell
\* is NaN or a text.  Every row also carries origin, its position in the
\* table the function was first given, which the code does not have: it
\* only tells the rows apart when the result is compared with the input.
\* ------------------------------------------------------------------------

NaN == [null |-> TRUE, text |-> <<>>]

TextCell(t) == [null |-> FALSE, text |-> t]

\* range(min(5, len(df))) and min(3, len(df))
LeadingRowsScanned == 5
TrailingRowsScanned == 3

\* the first-cell values that mark a summary row
SUMMARY_LABELS ==
  { <<"t","o","t","a","l">>, <<"t","o","t","a","l","s">>,
    <<"g","r","a","n","d"," ","t","o","t","a","l">>, <<"s","u","m">>,
    <<"s","u","m","m","a","r","y">>, <<>> }

Min(a, b) == IF a <= b THEN a ELSE b

\* df.dropna(how="all")
DropAllNull(df) ==
  SelectSeq(df, LAMBDA row : \E k \in 1..Len(row.cells) : ~row.cells[k].null)

\* len(row.dropna()) <= 1
LooksLikeJunk(row) ==
  Cardinality({k \in 1..Len(row.cells) : ~row.cells[k].null}) <= 1

\* rows_to_drop: the rows before the break, among the first 5
LeadingJunk(df) ==
  LET n == Min(LeadingRowsScanned, Len(df))
  IN  CHOOSE k \in 0..n :
        /\ \A j \in 1..k : LooksLikeJunk(df[j])
        /\ k = n \/ ~LooksLikeJunk(df[k + 1])

\* str(row.iloc[0]).lower().strip() if pd.notna(row.iloc[0]) else ""
FirstVal(row) ==
  IF row.cells[1].null THEN <<>> ELSE Strip(Lower(row.cells[1].text))

IsSummaryRow(row) == FirstVal(row) \in SUMMARY_LABELS

\* the i of df = df.iloc[:-i]: the first of the last 3 rows, counted from
\* the end, that is a summary row; 0 when the table is not cut
TrailingCut(df) ==
  IF Len(df) > 1
  THEN LET hits == {i \in 1..Min(TrailingRowsScanned, Len(df)) :
                      IsSummaryRow(df[Len(df) + 1 - i])}
       IN  IF hits = {} THEN 0 ELSE CHOOSE i \in hits : \A j \in hits : i <= j
  ELSE 0

strip_junk_rows(df) ==
  IF Len(df) = 0 THEN df
  ELSE LET d1 == DropAllNull(df)
           d2 == SubSeq(d1, LeadingJunk(d1) + 1, Len(d1))
       IN  SubSeq(d2, 1, Len(d2) - TrailingCut(d2))

\* rows the tables are made of: an empty row, a report title, a summary
\* row, a data row without a name, a data row
Seven == TextCell(<<"7">>)

RowKinds ==
  { <<NaN, NaN, NaN>>,
    <<TextCell(<<"R","e","p","o","r","t">>), NaN, NaN>>,
    <<TextCell(<<" ","T","o","t","a","l">>), Seven, Seven>>,
    <<NaN, Seven, Seven>>,
    <<TextCell(<<"s","e","m">>), Seven, Seven>> }

Tables ==
  {[i \in 1..Len(t) |-> [cells |-> t[i], origin |-> i]] : t \in SeqsUpTo(RowKinds, MaxRows)}

StripInit ==
  /\ pre \in {[pc |-> "strip", df |-> t, once |-> <<>>, twice |-> <<>>] : t \in Tables}
  /\ syn = Idle /\ cls = Idle /\ fv = Idle /\ val = Idle /\ pipe = Idle

StripOnce ==
  /\ pre.pc = "strip"
  /\ pre' = [pre EXCEPT !.pc = "stripped", !.once = strip_junk_rows(pre.df)]
  /\ UNCHANGED <<syn, cls, fv, val, pipe>>

StripAgain ==
  /\ pre.pc = "stripped"
  /\ pre' = [pre EXCEPT !.pc = "stripped_again", !.twice = strip_junk_rows(pre.once)]
  /\ UNCHANGED <<syn, cls, fv, val, pipe>>

StripNext == StripOnce \/ StripAgain

SpecStrip == StripInit /\ [][StripNext]_vars

\* C17: strip_junk_rows applied to its own output returns that output
\* unchanged.
C17_StripIdempotent ==
  pre.pc = "stripped_again" => pre.twice = pre.once

\* C18: strip_junk_rows removes, besides the rows that are all null, only
\* rows of the leading run of at most 5 rows with at most one non-null
\* value, and only rows among the last 3 whose first cell, lowercased and
\* stripped, is a summary label or empty.
C18_StripRemovesOnlyJunk ==
  pre.pc = "stripped" =>
    LET d1   == DropAllNull(pre.df)
        kept == {pre.once[i].origin : i \in 1..Len(pre.once)}
    IN  \A p \in 1..Len(d1) :
          d1[p].origin \notin kept =>
            \/ /\ p <= LeadingRowsScanned
               /\ \A j \in 1..p : LooksLikeJunk(d1[j])
            \/ /\ p > Len(d1) - TrailingRowsScanned
               /\ IsSummaryRow(d1[p])

\* ------------------------------------------------------------------------
\* preprocess.py: detect_date_format and standardize_dates
\*
\* A value of the Date column is NaN or a text made of parts with a
\* separator between them; a part is a number written with some digits, or
\* no number (digits = 0).  The column is kept as runs of equal values:
\* [value, count] stands for count rows with that value.
\* ------------------------------------------------------------------------

DATE_FORMATS ==
  << "%Y-%m-%d", "%m/%d/%Y", "%d/%m/%Y", "%m/%d/%y", "%d/%m/%y",
     "%Y/%m/%d", "%d-%b-%Y", "%d-%b-%y", "%b %d, %Y" >>

\* head(20) of detect_date_format and head(50) of standardize_dates
DetectSample == 20
AmbiguitySample == 50

DaysInMonth(m) ==
  IF m = 2 THEN 29 ELSE IF m \in {4, 6, 9, 11} THEN 30 ELSE 31

IsMonth(part) == part.digits \in {1, 2} /\ part.n \in 1..12
IsDay(part, month) ==
  /\ part.digits \in {1, 2}
  /\ IsMonth(month)
  /\ part.n \in 1..DaysInMonth(month.n)
IsYear4(part) == part.digits = 4
IsYear2(part) == part.digits = 2

\* datetime.strptime(dv.strip(), fmt) does not raise.  The values of the
\* model hold no month name, so the formats with %b never parse.
Strptime(dv, fmt) ==
  /\ Len(dv.parts) = 3
  /\ LET p == dv.parts
     IN  CASE fmt = "%Y-%m-%d" ->
                dv.sep = "-" /\ IsYear4(p[1]) /\ IsMonth(p[2]) /\ IsDay(p[3], p[2])
           [] fmt = "%m/%d/%Y" ->
                dv.sep = "/" /\ IsMonth(p[1]) /\ IsDay(p[2], p[1]) /\ IsYear4(p[3])
           [] fmt = "%d/%m/%Y" ->
                dv.sep = "/" /\ IsMonth(p[2]) /\ IsDay(p[1], p[2]) /\ IsYear4(p[3])
           [] fmt = "%m/%d/%y" ->
                dv.sep = "/" /\ IsMonth(p[1]) /\ IsDay(p[2], p[1]) /\ IsYear2(p[3])
           [] fmt = "%d/%m/%y" ->
                dv.sep = "/" /\ IsMonth(p[2]) /\ IsDay(p[1], p[2]) /\ IsYear2(p[3])
           [] fmt = "%Y/%m/%d" ->
                dv.sep = "/" /\ IsYear4(p[1]) /\ IsMonth(p[2]) /\ IsDay(p[3], p[2])
           [] OTHER -> FALSE

\* series.dropna()
DropNa(series) == SelectSeq(series, LAMBDA run : ~run.value.null)

\* series.head(n)
RECURSIVE SeriesHead(_, _)
SeriesHead(series, n) ==
  IF n <= 0 \/ Len(series) = 0 THEN <<>>
  ELSE IF series[1].count >= n THEN << [series[1] EXCEPT !.count = n] >>
  ELSE << series[1] >> \o SeriesHead(Tail(series), n - series[1].count)

\* the number of values of the series that satisfy Test
RECURSIVE SumSeq(_)
SumSeq(ns) == IF Len(ns) = 0 THEN 0 ELSE ns[1] + SumSeq(Tail(ns))

CountValues(series, Test(_)) ==
  SumSeq([i \in 1..Len(series) |->
            IF Test(series[i].value) THEN series[i].count ELSE 0])

\* matches / len(sample) >= 0.8
EnoughMatches(matches, size) == matches * 10 >= size * 8

\* detect_date_format: the first format that parses enough of the sample
detect_date_format(series) ==
  LET sample == SeriesHead(DropNa(series), DetectSample)
      size   == CountValues(sample, LAMBDA v : TRUE)
      hits   == {k \in 1..Len(DATE_FORMATS) :
                   EnoughMatches(CountValues(sample, LAMBDA v : Strptime(v, DATE_FORMATS[k])),
                                 size)}
  IN  IF size = 0 \/ hits = {} THEN None
      ELSE DATE_FORMATS[CHOOSE k \in hits : \A j \in hits : k <= j]

\* fmt in ("%m/%d/%Y", "%d/%m/%Y", "%m/%d/%y", "%d/%m/%y")
AmbiguousFormats == {"%m/%d/%Y", "%d/%m/%Y", "%m/%d/%y", "%d/%m/%y"}

DayFirst(fmt) == fmt \in {"%d/%m/%Y", "%d/%m/%y", "%d-%b-%Y", "%d-%b-%y"}

\* the value adds an entry greater than 12 to month_parts: it has two
\* leading parts that are numbers, and the one in the month position of fmt
\* is above 12
MonthAbove12(dv, fmt) ==
  /\ Len(dv.parts) >= 2
  /\ dv.parts[1].digits > 0 /\ dv.parts[2].digits > 0
  /\ (IF DayFirst(fmt) THEN dv.parts[2].n ELSE dv.parts[1].n) > 12

\* month_parts and max(month_parts) > 12, over the first 50 values
LooksSwapped(series, fmt) ==
  CountValues(SeriesHead(DropNa(series), AmbiguitySample), LAMBDA v : MonthAbove12(v, fmt)) > 0

\* every format with day and month in front has its counterpart
SwappedFormat_AllFour(fmt) ==
  CASE fmt = "%m/%d/%Y" -> "%d/%m/%Y"
    [] fmt = "%d/%m/%Y" -> "%m/%d/%Y"
    [] fmt = "%m/%d/%y" -> "%d/%m/%y"
    [] fmt = "%d/%m/%y" -> "%m/%d/%y"
    [] OTHER -> fmt

\* the swap of the format assumption
SwappedFormat(fmt) ==
  CASE fmt = "%m/%d/%Y" -> "%d/%m/%Y"
    [] fmt = "%d/%m/%Y" -> "%m/%d/%Y"
    [] OTHER -> fmt

Warning(kind, fmt) == [kind |-> kind, using |-> fmt]

\* pd.to_datetime(df["Date"], format=fmt) does not raise
ConvertsWith(series, fmt) ==
  CountValues(DropNa(series), LAMBDA v : ~Strptime(v, fmt)) = 0

\* col.lower() in ("date", "day", "report date")
DateLikeNames ==
  { <<"d","a","t","e">>, <<"d","a","y">>, <<"r","e","p","o","r","t"," ","d","a","t","e">> }

\* standardize_dates.  df is the name of the column that holds the dates,
\* whether it is of a datetime dtype, and its values; generic_ok is whether
\* pandas' own parser (pd.to_datetime without a format) succeeds.
standardize_dates(df, generic_ok) ==
  LET unset == [renamed |-> FALSE, detected |-> None, fmt |-> None,
                warnings |-> <<>>, converted |-> FALSE]
      found == df.column = <<"D","a","t","e">> \/ Lower(df.column) \in DateLikeNames
  IN  IF ~found
      THEN [unset EXCEPT !.warnings = << Warning("no_date_column", None) >>]
      ELSE
        LET r == [unset EXCEPT !.renamed = (df.column # <<"D","a","t","e">>)]
        IN  IF df.is_datetime THEN [r EXCEPT !.converted = TRUE]
            ELSE
              LET detected == detect_date_format(df.values)
              IN  IF detected = None
                  THEN IF generic_ok THEN [r EXCEPT !.converted = TRUE]
                       ELSE [r EXCEPT !.warnings = << Warning("not_detected", None) >>]
                  ELSE
                    LET swap == detected \in AmbiguousFormats /\ LooksSwapped(df.values, detected)
                        fmt  == IF swap THEN SwappedFormat(detected) ELSE detected
                        w    == IF swap THEN << Warning("ambiguous", fmt) >> ELSE <<>>
                    IN  [r EXCEPT
                           !.detected = detected,
                           !.fmt = fmt,
                           !.warnings =
                             IF ConvertsWith(df.values, fmt) \/ generic_ok THEN w
                             ELSE Append(w, Warning("conversion_failed", None)),
                           !.converted = ConvertsWith(df.values, fmt) \/ generic_ok]

\* values of a Date column: day and month both at most 12, a 13 in the
\* first and in the second place, each with a 4-digit and a 2-digit year,
\* an ISO date, a text that is no date, and NaN
Num(n, digits) == [n |-> n, digits |-> digits]

SlashDate(a, b, y, ydigits) ==
  [null |-> FALSE, sep |-> "/", parts |-> << Num(a, 2), Num(b, 2), Num(y, ydigits) >>]

DateValues ==
  { SlashDate(1, 2, 2024, 4), SlashDate(13, 2, 2024, 4), SlashDate(2, 13, 2024, 4),
    SlashDate(1, 2, 24, 2),   SlashDate(13, 2, 24, 2),   SlashDate(2, 13, 24, 2),
    [null |-> FALSE, sep |-> "-", parts |-> << Num(2024, 4), Num(1, 2), Num(13, 2) >>],
    [null |-> FALSE, sep |-> "/", parts |-> << Num(0, 0), Num(0, 0) >>],
    [null |-> TRUE, sep |-> "", parts |-> <<>>] }

\* lengths of the runs: they reach the 80% threshold of the 20 values
\* sampled (16 of 20, 4 of 5) and pass the 20 and the 50 values looked at
RunLengths == {1, 4, 16, 20, 30}

DateColumns ==
  { <<"D","a","t","e">>, <<"D","A","Y">>, <<"C","l","i","c","k","s">> }

DatesInit ==
  /\ \E col \in DateColumns, dt \in BOOLEAN :
       \E vs \in SeqsUpTo([value : DateValues, count : RunLengths], MaxRuns) :
         pre = [pc |-> "dates",
                df |-> [column |-> col, is_datetime |-> dt, values |-> vs],
                result |-> <<>>]
  /\ syn = Idle /\ cls = Idle /\ fv = Idle /\ val = Idle /\ pipe = Idle

StandardizeDates ==
  /\ pre.pc = "dates"
  /\ \E generic_ok \in BOOLEAN :
       pre' = [pre EXCEPT !.pc = "standardized",
                          !.result = standardize_dates(pre.df, generic_ok)]
  /\ UNCHANGED <<syn, cls, fv, val, pipe>>

DatesNext == StandardizeDates

SpecDates == DatesInit /\ [][DatesNext]_vars

\* one of the first 50 non-null values has a number above 12 where the
\* detected format has the month
MonthPositionAbove12 ==
  \E k \in 1..Len(SeriesHead(DropNa(pre.df.values), AmbiguitySample)) :
    MonthAbove12(SeriesHead(DropNa(pre.df.values), AmbiguitySample)[k].value,
                 pre.result.detected)

\* C19: when standardize_dates has detected one of the four slash formats
\* (month first or day first, 4-digit or 2-digit year) and one of the first
\* 50 values has a number above 12 in the month position, the format used
\* is the one with day and month swapped and an ambiguity warning is
\* emitted; when no such value exists the format is the detected one and no
\* ambiguity warning is emitted.
C19_AmbiguousDatesSwapped ==
  (pre.pc = "standardized" /\ pre.result.detected \in AmbiguousFormats) =>
    IF MonthPositionAbove12
    THEN /\ pre.result.fmt = SwappedFormat_AllFour(pre.result.detected)
         /\ Warning("ambiguous", pre.result.fmt) \in Range(pre.result.warnings)
    ELSE /\ pre.result.fmt = pre.result.detected
         /\ \A k \in 1..Len(pre.result.warnings) : pre.result.warnings[k].kind # "ambiguous"

\* ------------------------------------------------------------------------
\* preprocess.py: split_by_geo
\*
\* A row is its Campaign cell and its Country cell (NaN or a text) and
\* origin, its position in the table given, which the code does not have.
\* ------------------------------------------------------------------------

\* the upper-case letter of each lower-case letter
UpperOf ==
  [c \in Range(LowerAlpha) |->
     UpperAlpha[CHOOSE i \in 1..Len(LowerAlpha) : LowerAlpha[i] = c]]

\* str.upper()
Upper(s) == [i \in 1..Len(s) |-> IF s[i] \in DOMAIN UpperOf THEN UpperOf[s[i]] ELSE s[i]]

Digits == {"0","1","2","3","4","5","6","7","8","9"}

\* \w of a regular expression
IsWordChar(c) == c \in Range(LowerAlpha) \cup Range(UpperAlpha) \cup Digits \cup {"_"}

\* \bword\b matches somewhere in s
ContainsWord(word, s) ==
  \E i \in 1..(Len(s) - Len(word) + 1) :
    /\ \A j \in 1..Len(word) : s[i + j - 1] = word[j]
    /\ i = 1 \/ ~IsWordChar(s[i - 1])
    /\ i + Len(word) - 1 = Len(s) \/ ~IsWordChar(s[i + Len(word)])

\* str.contains(r"\bTOKEN\b|_TOKEN_|_token_", case=False, regex=True, na=False)
\* with the token given in lower case
ContainsGeoToken(cell, token) ==
  /\ ~cell.null
  /\ \/ ContainsWord(token, Lower(cell.text))
     \/ Contains(<<"_">> \o token \o <<"_">>, Lower(cell.text))

TokenNA   == <<"n","a">>
TokenINTL == <<"i","n","t","l">>

NaMask(row)   == ContainsGeoToken(row.campaign, TokenNA)
IntlMask(row) == ContainsGeoToken(row.campaign, TokenINTL)

na_countries ==
  { <<"U","S">>, <<"U","S","A">>,
    <<"U","N","I","T","E","D"," ","S","T","A","T","E","S">>,
    <<"C","A">>, <<"C","A","N","A","D","A">> }

\* country_upper.isin(na_countries), with NaN filled by ""
NaCountry(row) ==
  (IF row.country.null THEN <<>> ELSE Upper(row.country.text)) \in na_countries

\* ~na_mask & df["Country"].notna()
IntlCountry(row) == ~NaCountry(row) /\ ~row.country.null

NoSplit == [keys |-> {}, na |-> <<>>, intl |-> <<>>, unknown_geo |-> <<>>]

\* split_by_geo: the dict it returns, as its keys and the rows under each
split_by_geo(df, source) ==
  IF source \in {"google-ads", "display"} /\ df.has_campaign
  THEN LET na      == SelectSeq(df.rows, NaMask)
           intl    == SelectSeq(df.rows, IntlMask)
           neither == SelectSeq(df.rows, LAMBDA row : ~NaMask(row) /\ ~IntlMask(row))
       IN  IF Len(na) > 0 /\ Len(intl) > 0
           THEN [keys |-> {"na", "intl"} \cup (IF Len(neither) > 0 THEN {"unknown_geo"} ELSE {}),
                 na |-> na, intl |-> intl, unknown_geo |-> neither]
           ELSE NoSplit
  ELSE IF source = "gsc" /\ df.has_country
  THEN LET na   == SelectSeq(df.rows, NaCountry)
           intl == SelectSeq(df.rows, IntlCountry)
       IN  IF Len(na) > 0 /\ Len(intl) > 0
           THEN [keys |-> {"na", "intl"}, na |-> na, intl |-> intl, unknown_geo |-> <<>>]
           ELSE NoSplit
  ELSE NoSplit

\* rows the tables are made of
GeoRowKinds ==
  { [campaign |-> TextCell(<<"N","A"," ","B","r","a","n","d">>),
     country  |-> TextCell(<<"U","S">>)],
    [campaign |-> TextCell(<<"B","r","a","n","d","_","i","n","t","l","_","x">>),
     country  |-> TextCell(<<"D","E">>)],
    [campaign |-> TextCell(<<"N","A"," ","I","N","T","L"," ","B","r","a","n","d">>),
     country  |-> TextCell(<<"c","a">>)],
    [campaign |-> TextCell(<<"B","a","n","a","n","a">>), country |-> NaN],
    [campaign |-> NaN, country |-> TextCell(<<"C","a","n","a","d","a">>)] }

GeoTables ==
  {[has_campaign |-> hc, has_country |-> hk,
    rows |-> [i \in 1..Len(t) |->
                [campaign |-> t[i].campaign, country |-> t[i].country, origin |-> i]]] :
     hc \in BOOLEAN, hk \in BOOLEAN, t \in SeqsUpTo(GeoRowKinds, MaxGeoRows)}

GeoSources == {"google-ads", "display", "gsc", "email"}

GeoInit ==
  /\ pre \in {[pc |-> "geo", df |-> t, source |-> src, result |-> NoSplit] :
                t \in GeoTables, src \in GeoSources}
  /\ syn = Idle /\ cls = Idle /\ fv = Idle /\ val = Idle /\ pipe = Idle

SplitByGeo ==
  /\ pre.pc = "geo"
  /\ pre' = [pre EXCEPT !.pc = "geo_split", !.result = split_by_geo(pre.df, pre.source)]
  /\ UNCHANGED <<syn, cls, fv, val, pipe>>

GeoNext == SplitByGeo

SpecGeo == GeoInit /\ [][GeoNext]_vars

\* the partitions of the result a row of the input is in
PartitionsOf(row) ==
  {k \in pre.result.keys : \E i \in 1..Len(pre.result[k]) : pre.result[k][i].origin = row.origin}

\* C20: whenever split_by_geo splits a table, every row of the table is in
\* exactly one of the partitions na, intl and unknown_geo.
C20_GeoSplitIsPartition ==
  (pre.pc = "geo_split" /\ pre.result.keys # {}) =>
    \A i \in 1..Len(pre.df.rows) : Cardinality(PartitionsOf(pre.df.rows[i])) = 1

\* ------------------------------------------------------------------------
\* preprocess.py: split_halo_file
\*
\* A HALO file is the columns of its header and its rows; of a row the
\* model keeps the channel name (Dimension 1), the date (Dimension 2) and
\* origin, its position in the file, which the code does not have.  The
\* metric cells, which parse_space_number turns into numbers, are not kept.
\* The result carries, beside the fields of the code's result dict, the
\* list written of the to_csv calls made, in their order.
\* ------------------------------------------------------------------------

\* HALO_CHANNEL_MAP: channel name of the feed -> channel id
HALO_CHANNEL_MAP ==
  << [name |-> <<"a","f","f","i","l","i","a","t","e">>, id |-> "affiliate"],
     [name |-> <<"b","r","a","n","d"," ","c","a","m","p","a","i","g","n">>, id |-> "brand_campaign"],
     [name |-> <<"d","i","r","e","c","t">>, id |-> "direct"],
     [name |-> <<"d","i","s","p","l","a","y">>, id |-> "display"],
     [name |-> <<"d","i","s","t","r","i","b","u","t","i","o","n">>, id |-> "distribution"],
     [name |-> <<"e","m","a","i","l">>, id |-> "email"],
     [name |-> <<"f","r","e","e"," ","r","e","f","e","r","r","a","l">>, id |-> "free_referral"],
     [name |-> <<"m","a","n","a","g","e","d"," ","s","o","c","i","a","l">>, id |-> "managed_social"],
     [name |-> <<"m","e","t","a","s","e","a","r","c","h">>, id |-> "metasearch"],
     [name |-> <<"m","o","b","i","l","e"," ","a","p","p"," ","d","o","w","n","l","o","a","d","s">>, id |-> "mobile_app_downloads"],
     [name |-> <<"p","a","i","d"," ","u","s","e","r"," ","r","e","f","e","r","r","a","l">>, id |-> "paid_user_referral"],
     [name |-> <<"p","r","o","m","o","t","e","d"," ","s","o","c","i","a","l">>, id |-> "promoted_social"],
     [name |-> <<"p","u","s","h"," ","n","o","t","i","f","i","c","a","t","i","o","n">>, id |-> "push_notification"],
     [name |-> <<"s","e","m">>, id |-> "sem"],
     [name |-> <<"s","e","o">>, id |-> "seo"],
     [name |-> <<"s","m","s">>, id |-> "sms"],
     [name |-> <<"u","n","k","n","o","w","n">>, id |-> "unknown"],
     [name |-> <<"u","n","k","n","o","w","n"," ","u","t","m">>, id |-> "unknown_utm"] >>

DigitChars == <<"0","1","2","3","4","5","6","7","8","9">>

\* the characters the texts of the model are made of, in the order of
\* their code points
Ascii ==
  << " ", "-", ".", "/" >> \o DigitChars \o UpperAlpha \o << "_" >> \o LowerAlpha

\* the text of a source id, a channel id or a geography
IdText ==
  "halo" :> <<"h","a","l","o">> @@
  "gsc" :> <<"g","s","c">> @@
  "google-ads" :> <<"g","o","o","g","l","e","-","a","d","s">> @@
  "email" :> <<"e","m","a","i","l">> @@
  "push" :> <<"p","u","s","h">> @@
  "sms" :> <<"s","m","s">> @@
  "social-paid" :> <<"s","o","c","i","a","l","-","p","a","i","d">> @@
  "metasearch" :> <<"m","e","t","a","s","e","a","r","c","h">> @@
  "affiliate" :> <<"a","f","f","i","l","i","a","t","e">> @@
  "distribution" :> <<"d","i","s","t","r","i","b","u","t","i","o","n">> @@
  "referral-program" :> <<"r","e","f","e","r","r","a","l","-","p","r","o","g","r","a","m">> @@
  "social-organic" :> <<"s","o","c","i","a","l","-","o","r","g","a","n","i","c">> @@
  "promo" :> <<"p","r","o","m","o">> @@
  "display" :> <<"d","i","s","p","l","a","y">> @@
  "brand_campaign" :> <<"b","r","a","n","d","_","c","a","m","p","a","i","g","n">> @@
  "direct" :> <<"d","i","r","e","c","t">> @@
  "free_referral" :> <<"f","r","e","e","_","r","e","f","e","r","r","a","l">> @@
  "managed_social" :> <<"m","a","n","a","g","e","d","_","s","o","c","i","a","l">> @@
  "mobile_app_downloads" :> <<"m","o","b","i","l","e","_","a","p","p","_","d","o","w","n","l","o","a","d","s">> @@
  "paid_user_referral" :> <<"p","a","i","d","_","u","s","e","r","_","r","e","f","e","r","r","a","l">> @@
  "promoted_social" :> <<"p","r","o","m","o","t","e","d","_","s","o","c","i","a","l">> @@
  "push_notification" :> <<"p","u","s","h","_","n","o","t","i","f","i","c","a","t","i","o","n">> @@
  "sem" :> <<"s","e","m">> @@
  "seo" :> <<"s","e","o">> @@
  "unknown" :> <<"u","n","k","n","o","w","n">> @@
  "unknown_utm" :> <<"u","n","k","n","o","w","n","_","u","t","m">> @@
  "na" :> <<"n","a">> @@
  "intl" :> <<"i","n","t","l">> @@
  "all" :> <<"a","l","l">>

\* the place of ord(c) among the code points of the characters
CodePoint(c) == CHOOSE i \in 1..Len(Ascii) : Ascii[i] = c

\* a < b for two str
StrLess(a, b) ==
  \E k \in 1..(Min(Len(a), Len(b)) + 1) :
    /\ \A j \in 1..(k - 1) : a[j] = b[j]
    /\ IF k > Len(a) THEN k <= Len(b)
       ELSE k <= Len(b) /\ CodePoint(a[k]) < CodePoint(b[k])

\* sorted(names) of a set of str
RECURSIVE Sorted(_)
Sorted(names) ==
  IF names = {} THEN <<>>
  ELSE LET least == CHOOSE a \in names : \A b \in names \ {a} : StrLess(a, b)
       IN  << least >> \o Sorted(names \ {least})

\* HALO_CHANNEL_MAP.get(channel_lower)
HaloChannelId(channel_lower) ==
  LET hits == {k \in 1..Len(HALO_CHANNEL_MAP) : HALO_CHANNEL_MAP[k].name = channel_lower}
  IN  IF hits = {} THEN None ELSE HALO_CHANNEL_MAP[CHOOSE k \in hits : TRUE].id

skip_channels == { <<"T","o","t","a","l">>, <<"N","/","A">> }

\* df["Dimension 1"].notna() & ~df["Dimension 1"].isin(skip_channels)
KeepsHaloRow(row) ==
  ~row.dimension1.null /\ row.dimension1.text \notin skip_channels

\* date_range of a table without dates
NoRange == <<>>

\* strftime("%Y-%m-%d")
Digit(n) == DigitChars[n + 1]
IsoText(dv) ==
  LET y == dv.parts[1].n
      m == dv.parts[2].n
      d == dv.parts[3].n
  IN  << Digit(y \div 1000), Digit((y \div 100) % 10), Digit((y \div 10) % 10), Digit(y % 10),
         "-", Digit(m \div 10), Digit(m % 10), "-", Digit(d \div 10), Digit(d % 10) >>

\* the order of two dates
DateKey(dv) == dv.parts[1].n * 10000 + dv.parts[2].n * 100 + dv.parts[3].n

\* get_date_range: the least and the greatest date of the Date column, the
\* values of which are ISO dates or NaN
get_date_range(has_date, dates) ==
  LET valid == {i \in 1..Len(dates) :
                  ~dates[i].null /\ Strptime(dates[i], "%Y-%m-%d")}
  IN  IF ~has_date \/ valid = {} THEN NoRange
      ELSE << IsoText(dates[CHOOSE i \in valid : \A j \in valid : DateKey(dates[i]) <= DateKey(dates[j])]),
              IsoText(dates[CHOOSE i \in valid : \A j \in valid : DateKey(dates[i]) >= DateKey(dates[j])]) >>

\* datetime.now().strftime("%Y-%m-%d")
Today == <<"2","0","2","6","-","1","1","-","0","6">>

\* generate_filename: the stem of the name, as its parts between underscores
generate_filename(source, geo, date_range) ==
  IF date_range # NoRange
  THEN << IdText[source], IdText[geo], date_range[1], To, date_range[2] >>
  ELSE << IdText[source], IdText[geo], Today >>

Col_Date == <<"D","a","t","e">>

\* the channel column is left in the per-channel table
HaloTableColumns_KeepChannel(columns) ==
  {IF c = Col_Dimension2 THEN Col_Date ELSE c : c \in columns}

\* rename(columns={"Dimension 2": "Date"}) and drop(columns=["Dimension 1"])
HaloTableColumns(columns) ==
  {IF c = Col_Dimension2 THEN Col_Date ELSE c : c \in columns \ {Col_Dimension1}}

\* if not dry_run
WritesFile(dry_run) == ~dry_run

UnknownChannel(channel_raw) == [kind |-> "unknown_channel", channel |-> channel_raw]

\* the loop of split_halo_file over sorted(df["Dimension 1"].unique())
RECURSIVE HaloLoop(_, _, _, _, _, _)
HaloLoop(df, names, i, dry_run, generic_ok, result) ==
  IF i > Len(names) THEN result
  ELSE
    LET channel_raw == names[i]
        channel_id  == HaloChannelId(Strip(Lower(channel_raw)))
    IN  IF channel_id = None
        THEN HaloLoop(df, names, i + 1, dry_run, generic_ok,
               [result EXCEPT !.warnings = Append(@, UnknownChannel(channel_raw))])
        ELSE
          LET rows       == SelectSeq(df.rows, LAMBDA row : row.dimension1.text = channel_raw)
              columns    == HaloTableColumns(df.columns)
              dates      == [k \in 1..Len(rows) |-> rows[k].dimension2]
              std        == standardize_dates(
                              [column |-> IF Col_Date \in columns THEN Col_Date ELSE <<>>,
                               is_datetime |-> FALSE,
                               values |-> [k \in 1..Len(rows) |->
                                             [value |-> dates[k], count |-> 1]]],
                              generic_ok)
              date_range == get_date_range(Col_Date \in columns, dates)
              filename   == generate_filename(channel_id, "all", date_range)
          IN  HaloLoop(df, names, i + 1, dry_run, generic_ok,
                [result EXCEPT
                   !.warnings = @ \o std.warnings,
                   !.output_files = Append(@, filename),
                   !.written = IF WritesFile(dry_run)
                               THEN Append(@, [path |-> filename, columns |-> columns,
                                               rows |-> rows])
                               ELSE @])

PendingResult ==
  [status |-> "pending", warnings |-> <<>>, output_files |-> <<>>, error |-> None,
   written |-> <<>>]

\* split_halo_file.  file.readable is whether pd.read_csv returns a table.
split_halo_file(file, dry_run, generic_ok) ==
  IF ~file.readable
  THEN [PendingResult EXCEPT !.status = "error", !.error = "Could not read HALO file"]
  ELSE
    LET df    == [columns |-> file.columns, rows |-> SelectSeq(file.rows, KeepsHaloRow)]
        names == Sorted({df.rows[k].dimension1.text : k \in 1..Len(df.rows)})
    IN  [HaloLoop(df, names, 1, dry_run, generic_ok, PendingResult)
           EXCEPT !.status = "success"]

\* the columns of a HALO file: its signature
HaloColumns ==
  {Col_Dimension1, Col_Dimension2, Col_Activations, Col_Impressions, Col_Spend, Col_M1PlusVFM}

\* a date of a HALO file, and a missing date
IsoDate(d) == [null |-> FALSE, sep |-> "-", parts |-> << Num(2026, 4), Num(1, 2), Num(d, 2) >>]
NoDate == [null |-> TRUE, sep |-> "", parts |-> <<>>]

\* rows of a HALO file: a channel in two spellings, a channel in one, a
\* name the map does not have, the summary sentinels and a missing name
HaloRowKinds ==
  { [dimension1 |-> TextCell(<<"s","e","m">>), dimension2 |-> IsoDate(1)],
    [dimension1 |-> TextCell(<<"s","e","m">>), dimension2 |-> IsoDate(2)],
    [dimension1 |-> TextCell(<<"S","E","M"," ">>), dimension2 |-> IsoDate(1)],
    [dimension1 |-> TextCell(<<"S","E","M"," ">>), dimension2 |-> IsoDate(2)],
    [dimension1 |-> TextCell(<<"D","i","s","p","l","a","y">>), dimension2 |-> IsoDate(2)],
    [dimension1 |-> TextCell(<<"D","i","s","p","l","a","y">>), dimension2 |-> NoDate],
    [dimension1 |-> TextCell(<<"P","o","d","c","a","s","t">>), dimension2 |-> IsoDate(1)],
    [dimension1 |-> TextCell(<<"T","o","t","a","l">>), dimension2 |-> IsoDate(1)],
    [dimension1 |-> TextCell(<<"N","/","A">>), dimension2 |-> IsoDate(2)],
    [dimension1 |-> NaN, dimension2 |-> IsoDate(1)] }

HaloInit ==
  /\ \E t \in SeqsUpTo(HaloRowKinds, MaxHaloRows), readable \in BOOLEAN, dry_run \in BOOLEAN :
       pre = [pc |-> "halo",
              file |-> [readable |-> readable, columns |-> HaloColumns,
                        rows |-> [i \in 1..Len(t) |->
                                    [dimension1 |-> t[i].dimension1,
                                     dimension2 |-> t[i].dimension2, origin |-> i]]],
              dry_run |-> dry_run, result |-> PendingResult]
  /\ syn = Idle /\ cls = Idle /\ fv = Idle /\ val = Idle /\ pipe = Idle

SplitHaloFile ==
  /\ pre.pc = "halo"
  /\ \E generic_ok \in BOOLEAN :
       pre' = [pre EXCEPT !.pc = "halo_split",
                          !.result = split_halo_file(pre.file, pre.dry_run, generic_ok)]
  /\ UNCHANGED <<syn, cls, fv, val, pipe>>

HaloNext == SplitHaloFile

SpecHalo == HaloInit /\ [][HaloNext]_vars

\* the rows split_halo_file has put into a file it wrote
RowsWritten ==
  UNION {Range(pre.result.written[k].rows) : k \in 1..Len(pre.result.written)}

\* the channel names of the file that the filter leaves and the map lacks
UnmappedNames ==
  {r.dimension1.text : r \in {x \in Range(pre.file.rows) :
      /\ ~x.dimension1.null
      /\ x.dimension1.text \notin skip_channels
      /\ HaloChannelId(Strip(Lower(x.dimension1.text))) = None}}

\* C22: after split_halo_file has read a HALO file, no row whose channel
\* is 'Total', 'N/A' or null is in a written file; every channel name that
\* HALO_CHANNEL_MAP lacks has exactly one warning and the status is
\* 'success'; every file written, and every file name reported, starts with
\* the channel id of its rows and the geography 'all', and every file
\* written has a Date column and neither Dimension 1 nor Dimension 2.
C22_HaloSplitOutputs ==
  (pre.pc = "halo_split" /\ pre.file.readable) =>
    /\ \A r \in RowsWritten :
         ~r.dimension1.null /\ r.dimension1.text \notin {<<"T","o","t","a","l">>, <<"N","/","A">>}
    /\ pre.result.status = "success"
    /\ \A n \in UnmappedNames :
         Cardinality({k \in 1..Len(pre.result.warnings) :
                        pre.result.warnings[k] = UnknownChannel(n)}) = 1
    /\ \A k \in 1..Len(pre.result.output_files) :
         /\ \E j \in 1..Len(HALO_CHANNEL_MAP) :
              pre.result.output_files[k][1] = IdText[HALO_CHANNEL_MAP[j].id]
         /\ pre.result.output_files[k][2] = GeoAll
    /\ \A k \in 1..Len(pre.result.written) :
         LET w == pre.result.written[k]
         IN  /\ \A r \in Range(w.rows) :
                  w.path[1] = IdText[HaloChannelId(Strip(Lower(r.dimension1.text)))]
             /\ w.path[2] = GeoAll
             /\ Col_Date \in w.columns
             /\ Col_Dimension1 \notin w.columns
             /\ Col_Dimension2 \notin w.columns

\* a file with a Total row, a name the map lacks and a mapped channel has
\* been split and a per-channel file written
C22_Witness ==
  /\ pre.pc = "halo_split"
  /\ Len(pre.result.written) > 0
  /\ \E r \in Range(pre.file.rows) :
       ~r.dimension1.null /\ r.dimension1.text = <<"T","o","t","a","l">>
  /\ UnmappedNames # {}

\* ------------------------------------------------------------------------
\* preprocess.py: standardize_columns, detect_geo, process_file
\*
\* A file is its type, whether it can be read, the column names of its
\* header and its rows.  Of a row the model keeps the Campaign and the
\* Country cell, the channel name and the date of a HALO row, and origin,
\* its position in the file.  The tables hold no junk rows, so that step 3
\* (strip_junk_rows) leaves them as they are.
\* ------------------------------------------------------------------------

\* the value None of COLUMN_ALIASES: the column is removed
Removed == <<>>

\* COLUMN_ALIASES: lower-case column name -> standard name, Removed for
\* the value None; "orders" is written twice and keeps its last value
COLUMN_ALIASES ==
  << [name |-> <<"i","m","p","r",".">>, alias |-> <<"I","m","p","r","e","s","s","i","o","n","s">>],
     [name |-> <<"i","m","p","r">>, alias |-> <<"I","m","p","r","e","s","s","i","o","n","s">>],
     [name |-> <<"a","v","g","."," ","c","p","c">>, alias |-> Removed],
     [name |-> <<"c","o","n","v","."," ","v","a","l","u","e">>, alias |-> <<"C","o","n","v","e","r","s","i","o","n"," ","V","a","l","u","e">>],
     [name |-> <<"c","o","n","v","."," ","v","a","l","u","e"," ","/"," ","c","o","s","t">>, alias |-> Removed],
     [name |-> <<"c","o","n","v",".">>, alias |-> <<"C","o","n","v","e","r","s","i","o","n","s">>],
     [name |-> <<"a","l","l"," ","c","o","n","v",".">>, alias |-> Removed],
     [name |-> <<"i","m","p","r","."," ","s","h","a","r","e">>, alias |-> <<"I","m","p","r","e","s","s","i","o","n"," ","S","h","a","r","e">>],
     [name |-> <<"s","e","a","r","c","h"," ","i","m","p","r","."," ","s","h","a","r","e">>, alias |-> <<"I","m","p","r","e","s","s","i","o","n"," ","S","h","a","r","e">>],
     [name |-> <<"a","v","e","r","a","g","e"," ","p","o","s","i","t","i","o","n">>, alias |-> <<"P","o","s","i","t","i","o","n">>],
     [name |-> <<"a","v","g"," ","p","o","s","i","t","i","o","n">>, alias |-> <<"P","o","s","i","t","i","o","n">>],
     [name |-> <<"a","v","g","."," ","p","o","s","i","t","i","o","n">>, alias |-> <<"P","o","s","i","t","i","o","n">>],
     [name |-> <<"u","r","l">>, alias |-> <<"P","a","g","e">>],
     [name |-> <<"s","a","l","e","s">>, alias |-> <<"C","o","n","v","e","r","s","i","o","n","s">>],
     [name |-> <<"o","r","d","e","r","s">>, alias |-> <<"T","r","a","n","s","a","c","t","i","o","n","s">>],
     [name |-> <<"c","o","m","m","i","s","s","i","o","n","s">>, alias |-> <<"C","o","m","m","i","s","s","i","o","n">>],
     [name |-> <<"p","u","b">>, alias |-> <<"P","u","b","l","i","s","h","e","r">>],
     [name |-> <<"p","u","b","l","i","s","h","e","r"," ","n","a","m","e">>, alias |-> <<"P","u","b","l","i","s","h","e","r">>],
     [name |-> <<"i","n","s","e","r","t","i","o","n"," ","o","r","d","e","r">>, alias |-> <<"C","a","m","p","a","i","g","n">>],
     [name |-> <<"l","i","n","e"," ","i","t","e","m">>, alias |-> <<"C","a","m","p","a","i","g","n">>],
     [name |-> <<"i","o">>, alias |-> <<"C","a","m","p","a","i","g","n">>],
     [name |-> <<"s","p","e","n","d">>, alias |-> <<"C","o","s","t">>],
     [name |-> <<"m","e","d","i","a"," ","c","o","s","t">>, alias |-> <<"C","o","s","t">>],
     [name |-> <<"v","i","e","w","a","b","l","e"," ","i","m","p","r","e","s","s","i","o","n","s">>, alias |-> <<"V","i","e","w","a","b","l","e"," ","I","m","p","r","e","s","s","i","o","n","s">>],
     [name |-> <<"m","e","a","s","u","r","a","b","l","e"," ","i","m","p","r","e","s","s","i","o","n","s">>, alias |-> <<"V","i","e","w","a","b","l","e"," ","I","m","p","r","e","s","s","i","o","n","s">>],
     [name |-> <<"s","u","b","j","e","c","t"," ","l","i","n","e">>, alias |-> <<"C","a","m","p","a","i","g","n">>],
     [name |-> <<"s","u","b","j","e","c","t">>, alias |-> <<"C","a","m","p","a","i","g","n">>],
     [name |-> <<"e","m","a","i","l"," ","n","a","m","e">>, alias |-> <<"C","a","m","p","a","i","g","n">>],
     [name |-> <<"s","e","n","d","s">>, alias |-> <<"S","e","n","t">>],
     [name |-> <<"t","o","t","a","l"," ","s","e","n","t">>, alias |-> <<"S","e","n","t">>],
     [name |-> <<"t","o","t","a","l"," ","d","e","l","i","v","e","r","e","d">>, alias |-> <<"D","e","l","i","v","e","r","e","d">>],
     [name |-> <<"u","n","i","q","u","e"," ","o","p","e","n","s">>, alias |-> <<"O","p","e","n","s">>],
     [name |-> <<"t","o","t","a","l"," ","o","p","e","n","s">>, alias |-> <<"O","p","e","n","s">>],
     [name |-> <<"u","n","i","q","u","e"," ","c","l","i","c","k","s">>, alias |-> <<"C","l","i","c","k","s">>],
     [name |-> <<"t","o","t","a","l"," ","c","l","i","c","k","s">>, alias |-> <<"C","l","i","c","k","s">>],
     [name |-> <<"u","n","s","u","b","s","c","r","i","b","e","s">>, alias |-> <<"U","n","s","u","b","s","c","r","i","b","e","s">>],
     [name |-> <<"o","p","t"," ","o","u","t","s">>, alias |-> <<"U","n","s","u","b","s","c","r","i","b","e","s">>],
     [name |-> <<"o","p","t","-","o","u","t","s">>, alias |-> <<"U","n","s","u","b","s","c","r","i","b","e","s">>],
     [name |-> <<"h","a","r","d"," ","b","o","u","n","c","e","s">>, alias |-> <<"B","o","u","n","c","e","s">>],
     [name |-> <<"s","o","f","t"," ","b","o","u","n","c","e","s">>, alias |-> <<"B","o","u","n","c","e","s">>],
     [name |-> <<"p","u","s","h"," ","n","a","m","e">>, alias |-> <<"C","a","m","p","a","i","g","n">>],
     [name |-> <<"n","o","t","i","f","i","c","a","t","i","o","n"," ","n","a","m","e">>, alias |-> <<"C","a","m","p","a","i","g","n">>],
     [name |-> <<"m","e","s","s","a","g","e"," ","n","a","m","e">>, alias |-> <<"C","a","m","p","a","i","g","n">>],
     [name |-> <<"a","d"," ","s","e","t">>, alias |-> <<"C","a","m","p","a","i","g","n">>],
     [name |-> <<"a","d"," ","s","e","t"," ","n","a","m","e">>, alias |-> <<"C","a","m","p","a","i","g","n">>],
     [name |-> <<"a","d","s","e","t">>, alias |-> <<"C","a","m","p","a","i","g","n">>],
     [name |-> <<"e","n","g","a","g","e","m","e","n","t">>, alias |-> <<"E","n","g","a","g","e","m","e","n","t">>],
     [name |-> <<"e","n","g","a","g","e","m","e","n","t","s">>, alias |-> <<"E","n","g","a","g","e","m","e","n","t">>],
     [name |-> <<"v","i","d","e","o"," ","v","i","e","w","s">>, alias |-> <<"V","i","d","e","o"," ","V","i","e","w","s">>],
     [name |-> <<"v","i","d","e","o"," ","c","o","m","p","l","e","t","i","o","n","s">>, alias |-> <<"V","i","d","e","o"," ","C","o","m","p","l","e","t","i","o","n","s">>],
     [name |-> <<"3","s"," ","v","i","e","w","s">>, alias |-> <<"V","i","d","e","o"," ","V","i","e","w","s">>],
     [name |-> <<"t","h","r","u","p","l","a","y","s">>, alias |-> <<"V","i","d","e","o"," ","C","o","m","p","l","e","t","i","o","n","s">>],
     [name |-> <<"p","r","o","p","e","r","t","y">>, alias |-> <<"C","a","m","p","a","i","g","n">>],
     [name |-> <<"h","o","t","e","l">>, alias |-> <<"C","a","m","p","a","i","g","n">>],
     [name |-> <<"l","i","s","t","i","n","g">>, alias |-> <<"C","a","m","p","a","i","g","n">>],
     [name |-> <<"b","o","o","k","i","n","g","s">>, alias |-> <<"B","o","o","k","i","n","g","s">>],
     [name |-> <<"r","e","s","e","r","v","a","t","i","o","n","s">>, alias |-> <<"B","o","o","k","i","n","g","s">>],
     [name |-> <<"a","v","g"," ","b","i","d">>, alias |-> <<"A","v","g"," ","B","i","d">>],
     [name |-> <<"a","v","e","r","a","g","e"," ","b","i","d">>, alias |-> <<"A","v","g"," ","B","i","d">>],
     [name |-> <<"p","a","r","t","n","e","r">>, alias |-> <<"P","a","r","t","n","e","r">>],
     [name |-> <<"p","a","r","t","n","e","r"," ","n","a","m","e">>, alias |-> <<"P","a","r","t","n","e","r">>],
     [name |-> <<"n","e","t","w","o","r","k">>, alias |-> <<"P","a","r","t","n","e","r">>],
     [name |-> <<"t","r","a","n","s","a","c","t","i","o","n","s">>, alias |-> <<"T","r","a","n","s","a","c","t","i","o","n","s">>],
     [name |-> <<"n","e","t"," ","r","e","v","e","n","u","e">>, alias |-> <<"N","e","t"," ","R","e","v","e","n","u","e">>],
     [name |-> <<"i","n","c","e","n","t","i","v","e"," ","c","o","s","t">>, alias |-> <<"I","n","c","e","n","t","i","v","e"," ","C","o","s","t">>],
     [name |-> <<"i","n","c","e","n","t","i","v","e">>, alias |-> <<"I","n","c","e","n","t","i","v","e"," ","C","o","s","t">>],
     [name |-> <<"p","r","o","m","o","t","i","o","n">>, alias |-> <<"P","r","o","m","o"," ","N","a","m","e">>],
     [name |-> <<"p","r","o","m","o">>, alias |-> <<"P","r","o","m","o"," ","N","a","m","e">>],
     [name |-> <<"p","r","o","m","o","t","i","o","n"," ","n","a","m","e">>, alias |-> <<"P","r","o","m","o"," ","N","a","m","e">>],
     [name |-> <<"c","o","u","p","o","n"," ","c","o","d","e">>, alias |-> <<"P","r","o","m","o"," ","N","a","m","e">>],
     [name |-> <<"v","o","u","c","h","e","r">>, alias |-> <<"P","r","o","m","o"," ","N","a","m","e">>],
     [name |-> <<"d","i","s","c","o","u","n","t">>, alias |-> <<"D","i","s","c","o","u","n","t"," ","A","m","o","u","n","t">>],
     [name |-> <<"d","i","s","c","o","u","n","t"," ","c","o","s","t">>, alias |-> <<"D","i","s","c","o","u","n","t"," ","A","m","o","u","n","t">>],
     [name |-> <<"d","i","s","c","o","u","n","t","_","a","m","o","u","n","t">>, alias |-> <<"D","i","s","c","o","u","n","t"," ","A","m","o","u","n","t">>],
     [name |-> <<"p","r","o","m","o"," ","t","y","p","e">>, alias |-> <<"P","r","o","m","o"," ","T","y","p","e">>],
     [name |-> <<"p","r","o","m","o","t","i","o","n"," ","t","y","p","e">>, alias |-> <<"P","r","o","m","o"," ","T","y","p","e">>],
     [name |-> <<"d","i","s","c","o","u","n","t"," ","t","y","p","e">>, alias |-> <<"D","i","s","c","o","u","n","t"," ","T","y","p","e">>],
     [name |-> <<"d","i","s","c","o","u","n","t"," ","v","a","l","u","e">>, alias |-> <<"D","i","s","c","o","u","n","t"," ","V","a","l","u","e">>],
     [name |-> <<"r","e","d","e","m","p","t","i","o","n","s">>, alias |-> <<"R","e","d","e","m","p","t","i","o","n","s">>],
     [name |-> <<"e","l","i","g","i","b","l","e"," ","u","s","e","r","s">>, alias |-> <<"E","l","i","g","i","b","l","e"," ","U","s","e","r","s">>],
     [name |-> <<"d","i","m","e","n","s","i","o","n"," ","1">>, alias |-> <<"C","h","a","n","n","e","l">>],
     [name |-> <<"d","i","m","e","n","s","i","o","n"," ","2">>, alias |-> <<"D","a","t","e">>],
     [name |-> <<"m","1","+","v","f","m">>, alias |-> <<"M","1","V","F","M">>],
     [name |-> <<"m","1"," ","+"," ","v","f","m">>, alias |-> <<"M","1","V","F","M">>],
     [name |-> <<"g","b">>, alias |-> <<"G","r","o","s","s"," ","B","i","l","l","i","n","g","s">>],
     [name |-> <<"g","r">>, alias |-> <<"G","r","o","s","s"," ","R","e","v","e","n","u","e">>],
     [name |-> <<"n","o","b">>, alias |-> <<"N","e","w"," ","O","r","d","e","r"," ","B","a","s","e">>],
     [name |-> <<"n","o","r">>, alias |-> <<"N","e","w"," ","O","r","d","e","r"," ","R","e","v","e","n","u","e">>],
     [name |-> <<"i","l","s">>, alias |-> <<"I","L","S">>],
     [name |-> <<"v","f","m">>, alias |-> <<"V","F","M">>],
     [name |-> <<"o","r","d","e","r"," ","d","i","s","c","o","u","n","t">>, alias |-> <<"O","r","d","e","r"," ","D","i","s","c","o","u","n","t">>],
     [name |-> <<"o","r","d","e","r"," ","i","t","e","m"," ","c","o","u","n","t">>, alias |-> <<"O","r","d","e","r"," ","I","t","e","m"," ","C","o","u","n","t">>],
     [name |-> <<"p","r","o","m","o"," ","s","p","e","n","d">>, alias |-> <<"P","r","o","m","o"," ","S","p","e","n","d">>] >>

\* col_lower.rstrip(".")
RECURSIVE RStripDots(_)
RStripDots(s) ==
  IF Len(s) > 0 /\ s[Len(s)] = "." THEN RStripDots(SubSeq(s, 1, Len(s) - 1)) ELSE s

InAliases(col_lower) == \E k \in 1..Len(COLUMN_ALIASES) : COLUMN_ALIASES[k].name = col_lower

\* COLUMN_ALIASES[col_lower]
AliasOf(col_lower) ==
  COLUMN_ALIASES[CHOOSE k \in 1..Len(COLUMN_ALIASES) : COLUMN_ALIASES[k].name = col_lower].alias

\* the name standardize_columns gives a column, Removed when it drops it
StandardName(col) ==
  LET stripped  == Strip(col)
      col_lower == Strip(Lower(stripped))
  IN  IF InAliases(col_lower) THEN AliasOf(col_lower)
      ELSE IF InAliases(RStripDots(col_lower)) THEN AliasOf(RStripDots(col_lower))
      ELSE stripped

\* standardize_columns, on the column names
standardize_columns(columns) ==
  {StandardName(c_) : c_ \in columns} \ {Removed}

\* the patterns of detect_geo, which has the words spelled out as well
DetectsNA(cell) ==
  \/ ContainsGeoToken(cell, TokenNA)
  \/ ~cell.null /\ Contains(<<"n","o","r","t","h"," ","a","m","e","r","i","c","a">>, Lower(cell.text))

DetectsINTL(cell) ==
  \/ ContainsGeoToken(cell, TokenINTL)
  \/ ~cell.null /\ Contains(<<"i","n","t","e","r","n","a","t","i","o","n","a","l">>, Lower(cell.text))

\* detect_geo
detect_geo(df, source) ==
  IF source \in {"google-ads", "display"}
  THEN IF df.has_campaign
       THEN LET has_na   == \E k \in 1..Len(df.rows) : DetectsNA(df.rows[k].campaign)
                has_intl == \E k \in 1..Len(df.rows) : DetectsINTL(df.rows[k].campaign)
            IN  IF has_na /\ has_intl THEN "all"
                ELSE IF has_na THEN "na"
                ELSE IF has_intl THEN "intl"
                ELSE "all"
       ELSE "all"
  ELSE IF source = "gsc"
  THEN IF df.has_country
       THEN LET countries == {df.rows[k].country.text :
                                k \in {j \in 1..Len(df.rows) : ~df.rows[j].country.null}}
            IN  IF Cardinality(countries) > 1 THEN "all"
                ELSE IF Cardinality(countries) = 1
                THEN IF Upper(CHOOSE c_ \in countries : TRUE) \in na_countries
                     THEN "na" ELSE "intl"
                ELSE "all"
       ELSE "all"
  ELSE "all"

UnknownGeo(n) == [kind |-> "unknown_geo", rows |-> n]

\* the loop of process_file over geo_splits.items(), the keys being in the
\* order na, intl, unknown_geo in which split_by_geo sets them
RECURSIVE GeoLoop(_, _, _, _, _, _)
GeoLoop(geo_splits, labels, i, source, dry_run, result) ==
  IF i > Len(labels) THEN result
  ELSE IF labels[i] \notin geo_splits.keys
  THEN GeoLoop(geo_splits, labels, i + 1, source, dry_run, result)
  ELSE IF labels[i] = "unknown_geo"
  THEN GeoLoop(geo_splits, labels, i + 1, source, dry_run,
         [result EXCEPT !.warnings = Append(@, UnknownGeo(Len(geo_splits.unknown_geo)))])
  ELSE
    LET geo_df   == geo_splits[labels[i]]
        dr       == get_date_range(geo_splits.has_date, [k \in 1..Len(geo_df) |-> geo_df[k].date])
        filename == generate_filename(source, labels[i], dr)
    IN  GeoLoop(geo_splits, labels, i + 1, source, dry_run,
          [result EXCEPT
             !.output_files = Append(@, filename),
             !.written = IF WritesFile(dry_run)
                         THEN Append(@, [path |-> filename, columns |-> geo_splits.columns,
                                         rows |-> geo_df])
                         ELSE @])

\* the first column whose lower-case name is a date-like name
DateColumn(columns) ==
  IF Col_Date \in columns THEN Col_Date
  ELSE IF \E c_ \in columns : Lower(c_) \in DateLikeNames
  THEN CHOOSE c_ \in columns : Lower(c_) \in DateLikeNames
  ELSE <<>>

\* the standardized columns are matched first
SourceOf_StandardizedFirst(raw_columns, columns) ==
  IF identify_source(columns) # None THEN identify_source(columns)
  ELSE identify_source(raw_columns)

\* steps 4 to 4c: the source of the columns as read and, when there is
\* none, of the standardized columns
SourceOf(raw_columns, columns) ==
  IF identify_source(raw_columns) # None THEN identify_source(raw_columns)
  ELSE identify_source(columns)

\* process_file
process_file(file, dry_run, generic_ok) ==
  IF file.file_type \in {"screenshot", "pdf"}
  THEN [PendingResult EXCEPT !.status = "skipped"]
  ELSE IF file.file_type = "unknown"
  THEN [PendingResult EXCEPT !.status = "error", !.error = "Unrecognized file type"]
  ELSE IF ~file.readable \/ Len(file.rows) = 0
  THEN [PendingResult EXCEPT !.status = "error",
                             !.error = "Could not read file or file is empty"]
  ELSE
    LET columns == standardize_columns(file.columns)
        source  == SourceOf(file.columns, columns)
    IN  IF source = None
        THEN [PendingResult EXCEPT !.status = "error",
                                   !.error = "Could not identify data source"]
        ELSE IF source = "halo"
        THEN split_halo_file(file, dry_run, generic_ok)
        ELSE
          LET date_col == DateColumn(columns)
              has_date == date_col # <<>>
              std      == standardize_dates(
                            [column |-> date_col, is_datetime |-> FALSE,
                             values |-> [k \in 1..Len(file.rows) |->
                                           [value |-> file.rows[k].date, count |-> 1]]],
                            generic_ok)
              out_cols == {IF c_ = date_col THEN Col_Date ELSE c_ : c_ \in columns}
              df       == [has_campaign |-> Col_Campaign \in columns,
                           has_country |-> Col_Country \in columns,
                           rows |-> file.rows]
              geo        == detect_geo(df, source)
              date_range == get_date_range(has_date, [k \in 1..Len(df.rows) |-> df.rows[k].date])
              split      == split_by_geo(df, source)
              geo_splits == [keys |-> split.keys, na |-> split.na, intl |-> split.intl,
                             unknown_geo |-> split.unknown_geo,
                             has_date |-> has_date, columns |-> out_cols]
              started    == [PendingResult EXCEPT !.warnings = std.warnings]
              filename   == generate_filename(source, geo, date_range)
          IN  IF geo_splits.keys # {}
              THEN [GeoLoop(geo_splits, <<"na", "intl", "unknown_geo">>, 1, source,
                            dry_run, started)
                      EXCEPT !.status = "success"]
              ELSE [started EXCEPT
                      !.status = "success",
                      !.output_files = << filename >>,
                      !.written = IF WritesFile(dry_run)
                                  THEN << [path |-> filename, columns |-> out_cols,
                                           rows |-> df.rows] >>
                                  ELSE <<>>]

Col_Sales          == <<"S","a","l","e","s">>
Col_InsertionOrder == <<"I","n","s","e","r","t","i","o","n"," ","O","r","d","e","r">>
Col_ImprDot        == <<"I","m","p","r",".">>

\* headers of the files processed: a google-ads and a search-console
\* export with dates, a display export whose Sales column the aliases turn
\* into Conversions, a promo export whose Orders column they turn into
\* Transactions, a display export known only by its aliases, an email
\* export, and a header of no source
ProcessColumnSets ==
  { {Col_Campaign, Col_Impressions, Col_Clicks, Col_Cost, Col_Conversions, Col_Date},
    {Col_Page, Col_Impressions, Col_Clicks, Col_CTR, Col_Position, Col_Country, Col_Date},
    {Col_Campaign, Col_Impressions, Col_Clicks, Col_Cost, Col_Sales},
    {Col_PromoName, Col_Orders, Col_Revenue, Col_DiscountAmount, Col_Partner, Col_Commission},
    {Col_InsertionOrder, Col_ImprDot, Col_Spend},
    {Col_Campaign, Col_Sent, Col_Delivered, Col_Opens, Col_Clicks},
    {Col_Page, Col_Clicks} }

\* rows of those files: a campaign of each geography, one with no token,
\* one with the words North America, one with both tokens
ProcessRowKinds ==
  { [campaign |-> TextCell(<<"N","A"," ","B","r","a","n","d">>),
     country  |-> TextCell(<<"U","S">>), date |-> IsoDate(1)],
    [campaign |-> TextCell(<<"B","r","a","n","d","_","i","n","t","l","_","x">>),
     country  |-> TextCell(<<"D","E">>), date |-> IsoDate(2)],
    [campaign |-> TextCell(<<"B","a","n","a","n","a">>),
     country  |-> NaN, date |-> IsoDate(1)],
    [campaign |-> TextCell(<<"N","o","r","t","h"," ","A","m","e","r","i","c","a"," ","X">>),
     country  |-> TextCell(<<"c","a">>), date |-> IsoDate(2)],
    [campaign |-> TextCell(<<"N","A"," ","I","N","T","L"," ","B","r","a","n","d">>),
     country  |-> TextCell(<<"C","A">>), date |-> NoDate] }

\* rows of a HALO file given to process_file
ProcessHaloKinds ==
  { [dimension1 |-> TextCell(<<"s","e","m">>), dimension2 |-> IsoDate(1)],
    [dimension1 |-> TextCell(<<"S","E","M"," ">>), dimension2 |-> IsoDate(1)],
    [dimension1 |-> TextCell(<<"T","o","t","a","l">>), dimension2 |-> IsoDate(2)] }

ProcessRow(kind, i) ==
  [campaign   |-> IF "campaign" \in DOMAIN kind THEN kind.campaign ELSE NaN,
   country    |-> IF "country" \in DOMAIN kind THEN kind.country ELSE NaN,
   date       |-> IF "date" \in DOMAIN kind THEN kind.date ELSE NoDate,
   dimension1 |-> IF "dimension1" \in DOMAIN kind THEN kind.dimension1 ELSE NaN,
   dimension2 |-> IF "dimension2" \in DOMAIN kind THEN kind.dimension2 ELSE NoDate,
   origin     |-> i]

ProcessTable(t) == [i \in 1..Len(t) |-> ProcessRow(t[i], i)]

FileTypes == {"csv", "xlsx", "screenshot", "pdf", "unknown"}

\* the files process_file is called with: tables of every header that can
\* be read, and one table under every file type, readable or not
ProcessInit ==
  /\ \E dry_run \in BOOLEAN :
       \/ \E cols \in ProcessColumnSets, t \in SeqsUpTo(ProcessRowKinds, MaxProcessRows) :
            pre = [pc |-> "process",
                   file |-> [file_type |-> "csv", readable |-> TRUE, columns |-> cols,
                             rows |-> ProcessTable(t)],
                   dry_run |-> dry_run, generic_ok |-> FALSE, result |-> PendingResult]
       \/ \E t \in SeqsUpTo(ProcessHaloKinds, MaxProcessRows) :
            pre = [pc |-> "process",
                   file |-> [file_type |-> "csv", readable |-> TRUE, columns |-> HaloColumns,
                             rows |-> ProcessTable(t)],
                   dry_run |-> dry_run, generic_ok |-> FALSE, result |-> PendingResult]
       \/ \E ft \in FileTypes, readable \in BOOLEAN :
            pre = [pc |-> "process",
                   file |-> [file_type |-> ft, readable |-> readable,
                             columns |-> {Col_Campaign, Col_Impressions, Col_Cost},
                             rows |-> ProcessTable(<< CHOOSE k \in ProcessRowKinds : TRUE >>)],
                   dry_run |-> dry_run, generic_ok |-> FALSE, result |-> PendingResult]
  /\ syn = Idle /\ cls = Idle /\ fv = Idle /\ val = Idle /\ pipe = Idle

ProcessFile ==
  /\ pre.pc = "process"
  /\ \E generic_ok \in BOOLEAN :
       pre' = [pre EXCEPT !.pc = "processed", !.generic_ok = generic_ok,
                          !.result = process_file(pre.file, pre.dry_run, generic_ok)]
  /\ UNCHANGED <<syn, cls, fv, val, pipe>>

ProcessNext == ProcessFile

SpecProcess == ProcessInit /\ [][ProcessNext]_vars

\* the source process_file has identified
ProcessedSource ==
  SourceOf(pre.file.columns, standardize_columns(pre.file.columns))

\* a row that can be assigned to neither geography: a campaign name in
\* which neither detect_geo nor split_by_geo finds a token, or a
\* search-console row without a country
Unassignable(row) ==
  \/ /\ ProcessedSource \in {"google-ads", "display"}
     /\ Col_Campaign \in standardize_columns(pre.file.columns)
     /\ ~DetectsNA(row.campaign) /\ ~DetectsINTL(row.campaign)
  \/ /\ ProcessedSource = "gsc"
     /\ Col_Country \in standardize_columns(pre.file.columns)
     /\ row.country.null

\* C21: after process_file has succeeded on a file in which a geography is
\* present (some row can be assigned), no row that can be assigned to
\* neither NA nor INTL is in a file written under the geography na or intl,
\* and when the file has such a row the result has a warning that reports
\* the unassigned rows.
C21_UnassignableRowsReported ==
  (/\ pre.pc = "processed"
   /\ pre.result.status = "success"
   /\ \E j \in 1..Len(pre.file.rows) : ~Unassignable(pre.file.rows[j])) =>
    \A i \in 1..Len(pre.file.rows) :
      Unassignable(pre.file.rows[i]) =>
        /\ \A k \in 1..Len(pre.result.written) :
             pre.result.written[k].path[2] \in {IdText["na"], IdText["intl"]} =>
               \A r \in Range(pre.result.written[k].rows) : r.origin # i
        /\ \E k \in 1..Len(pre.result.warnings) :
             pre.result.warnings[k].kind = "unknown_geo"

\* ------------------------------------------------------------------------
\* run_pipeline: the modes and the quality gate
\* ------------------------------------------------------------------------

\* C23: a run that has returned with status preprocess_only has gone
\* through classify, preprocess and validate, and through nothing else, and
\* has recorded the result of the validation step.
C23_PreprocessOnlyValidates ==
  pipe.status = "preprocess_only" =>
    /\ pipe.stages = << "classify", "preprocess", "validate" >>
    /\ "validate" \in Recorded(pipe.steps)

\* C24: a run started with dry_run has written no file: no prompt file and
\* no pipeline_result.json.
C24_DryRunWritesNothing ==
  pipe.pc # "idle" /\ pipe.dry_run => pipe.written = <<>>

\* C28: a run has entered the dispatch step only if the validator process
\* printed a JSON document whose gate_decision is PROCEED or
\* PROCEED_WITH_CAVEATS.
C28_GateFailsClosed ==
  (pipe.pc # "idle" /\ "dispatch" \in Range(pipe.stages)) =>
    /\ pipe.validator \in {"json_PROCEED", "json_PROCEED_WITH_CAVEATS"}
    /\ \E i \in 1..Len(pipe.steps) :
         /\ pipe.steps[i].step = "validate"
         /\ pipe.steps[i].value.gate_decision \in {"PROCEED", "PROCEED_WITH_CAVEATS"}

\* C29: every group for which the run has prepared a group synthesis has
\* at least two distinct active channels.
C29_GroupSynthesisNeedsDistinctChannels ==
  (pipe.pc # "idle" /\ "group_synthesis" \in Range(pipe.stages)) =>
    \A k \in 1..Len(pipe.group_synthesis_groups) :
      Cardinality({ch \in Range(pipe.active_channels) :
                     GroupOf(ch) = pipe.group_synthesis_groups[k]}) >= 2

\* ------------------------------------------------------------------------
\* preprocess.py and validate_data.py: the files the preprocessor names,
\* given to the validator
\* ------------------------------------------------------------------------

\* the source ids of SOURCE_SIGNATURES
SignatureSources ==
  {SOURCE_SIGNATURES[k].source_name : k \in 1..Len(SOURCE_SIGNATURES)}

\* a file with nothing wrong, named by generate_filename for every source
\* id, geography and date range (none, or a week)
NamedInit ==
  /\ \E source \in SignatureSources, geo \in {"na", "intl", "all"},
        date_range \in {NoRange, << D0101, D0107 >>} :
       val = [pc |-> "named", source |-> source,
              files |-> << [CleanFile EXCEPT !.name = generate_filename(source, geo, date_range)] >>,
              result |-> None]
  /\ syn = Idle /\ cls = Idle /\ fv = Idle /\ pipe = Idle /\ pre = Idle

ValidateNamed ==
  /\ val.pc = "named"
  /\ val' = [val EXCEPT !.pc = "named_done",
                        !.result = validate_data_run_validation(val.files)]
  /\ UNCHANGED <<syn, cls, fv, pipe, pre>>

NamedNext == ValidateNamed

SpecNamed == NamedInit /\ [][NamedNext]_vars

\* C25: every source id of SOURCE_SIGNATURES is a key of SOURCE_SCHEMA_MAP
\* and of SOURCE_RULES_MAP, and a file the preprocessor has named with it
\* gets no source_detection FAIL from the validator, whose gate then is not
\* BLOCK for a file with nothing wrong.
C25_PreprocessSourcesKnown ==
  val.pc = "named_done" =>
    /\ val.source \in DOMAIN SOURCE_SCHEMA_MAP
    /\ val.source \in DOMAIN SOURCE_RULES_MAP
    /\ \A k \in 1..Len(val.result.files[1].checks) :
         val.result.files[1].checks[k].check # "source_detection"
    /\ val.result.gate_decision # "BLOCK"

\* the source of the columns of the file as read, and of its standardized
\* columns
RawSource == identify_source(pre.file.columns)
StandardizedSource == identify_source(standardize_columns(pre.file.columns))

\* process_file has got as far as identifying the source of a file that is
\* no HALO file
SourceIdentified ==
  /\ pre.pc = "processed"
  /\ pre.file.file_type \in {"csv", "xlsx"} /\ pre.file.readable /\ Len(pre.file.rows) > 0
  /\ RawSource # "halo"
  /\ ~(RawSource = None /\ StandardizedSource = "halo")

\* C26 as stated: the files process_file reports are named with the source
\* of the standardized columns, and with the source of the columns as read
\* only when the standardized columns match no signature.
C26_StandardizedColumnsFirst ==
  SourceIdentified =>
    LET source == IF StandardizedSource # None THEN StandardizedSource ELSE RawSource
    IN  IF source = None THEN pre.result.status = "error"
        ELSE /\ pre.result.status = "success"
             /\ \A k \in 1..Len(pre.result.output_files) :
                  pre.result.output_files[k][1] = IdText[source]

\* C26, amended: the files process_file reports are named with the source
\* of the columns as read, and with the source of the standardized columns
\* only when the columns as read match no signature; without either the
\* result is an error.
C26_RawColumnsFirst ==
  SourceIdentified =>
    LET source == IF RawSource # None THEN RawSource ELSE StandardizedSource
    IN  IF source = None THEN pre.result.status = "error"
        ELSE /\ pre.result.status = "success"
             /\ Len(pre.result.output_files) > 0
             /\ \A k \in 1..Len(pre.result.output_files) :
                  pre.result.output_files[k][1] = IdText[source]

\* a display export whose standardized columns are those of google-ads has
\* been written under the name display
C26_Witness ==
  /\ SourceIdentified
  /\ RawSource = "display"
  /\ StandardizedSource = "google-ads"
  /\ Len(pre.result.written) > 0
  /\ pre.result.written[1].path[1] = IdText["display"]

\* ------------------------------------------------------------------------
\* run_analysis.py: get_available_data on files named by a prefix
\* ------------------------------------------------------------------------

\* the files {prefix}_{geo}_{date}.csv of every prefix of FILE_PREFIX_MAP
PrefixFiles ==
  {<< FILE_PREFIX_MAP[k].prefix, geo, D0101 >> :
     k \in 1..Len(FILE_PREFIX_MAP), geo \in {GeoNA, GeoAll}}

AvailableInit ==
  /\ \E listing \in SeqsUpTo(PrefixFiles, MaxListed) :
       pipe = [pc |-> "discover", listing |-> listing,
               available |-> [keys |-> <<>>, files |-> <<>>]]
  /\ syn = Idle /\ cls = Idle /\ fv = Idle /\ val = Idle /\ pre = Idle

GetAvailableData ==
  /\ pipe.pc = "discover"
  /\ pipe' = [pipe EXCEPT !.pc = "discovered",
                          !.available = get_available_data(pipe.listing)]
  /\ UNCHANGED <<syn, cls, fv, val, pre>>

AvailableNext == GetAvailableData

SpecAvailable == AvailableInit /\ [][AvailableNext]_vars

\* C27: get_available_data lists a file named with a prefix of
\* FILE_PREFIX_MAP under the channel of that prefix and under no other
\* channel.
C27_PrefixNamesOneChannel ==
  pipe.pc = "discovered" =>
    \A i \in 1..Len(pipe.listing) :
      \A k \in 1..Len(FILE_PREFIX_MAP) :
        pipe.listing[i][1] = FILE_PREFIX_MAP[k].prefix =>
          /\ << FILE_PREFIX_MAP[k].channel, pipe.listing[i] >> \in Range(pipe.available.files)
          /\ \A j \in 1..Len(pipe.available.files) :
               pipe.available.files[j][2] = pipe.listing[i] =>
                 pipe.available.files[j][1] = FILE_PREFIX_MAP[k].channel

\* the files of data/validated after the run: of the to_csv calls on one
\* path the last one is what the path holds
HaloFilesOnDisk ==
  {pre.result.written[k] : k \in {j \in 1..Len(pre.result.written) :
      \A l \in (j + 1)..Len(pre.result.written) :
        pre.result.written[l].path # pre.result.written[j].path}}

\* C30: split_halo_file has written no path twice, and every row of the
\* file whose channel name HALO_CHANNEL_MAP has is in exactly one of the
\* files the run has left in data/validated.
C30_HaloPathsWrittenOnce ==
  (pre.pc = "halo_split" /\ pre.file.readable /\ ~pre.dry_run) =>
    /\ \A j, k \in 1..Len(pre.result.written) :
         j # k => pre.result.written[j].path # pre.result.written[k].path
    /\ \A i \in 1..Len(pre.file.rows) :
         (/\ KeepsHaloRow(pre.file.rows[i])
          /\ HaloChannelId(Strip(Lower(pre.file.rows[i].dimension1.text))) # None) =>
           Cardinality({f \in HaloFilesOnDisk :
                          \E r \in Range(f.rows) : r.origin = i}) = 1

====
